---- MODULE Spec2Model ----
(***************************************************************************)
(* The data-generation orchestrator (src/data_generators/main.py) and the  *)
(* generator loops it runs (src/data_generators/*_generator.py), with the  *)
(* publish-or-quarantine path of BaseGenerator.send_event.                  *)
(*                                                                         *)
(* One task per generator runs DataGeneratorOrchestrator.run_generator:    *)
(* the dependency polling loop, then generator.run(), then cleanup in the  *)
(* finally clause.  The main thread submits the tasks, joins them and runs *)
(* DataGeneratorOrchestrator.cleanup.  A signal handler clears is_running. *)
(***************************************************************************)
EXTENDS Integers, Sequences, FiniteSets, TLC

\* Bound on the size of SessionGenerator.active_sessions explored.
MaxActive == 2

\* self.generators (main.py:31-41), in dictionary order.
GeneratorOrder ==
    << "user", "product_category", "product", "session", "product_view",
       "wishlist", "cart", "order", "support_ticket" >>

Generators == { GeneratorOrder[i] : i \in 1..Len(GeneratorOrder) }

\* self.dependencies with the entry of 'product' left out.
dependencies_without_product ==
    [ g \in {"product_view", "wishlist", "cart", "order", "support_ticket"} |->
        CASE g = "product_view"   -> {"product", "session"}
          [] g = "wishlist"       -> {"user", "product"}
          [] g = "cart"           -> {"user", "session", "product"}
          [] g = "order"          -> {"cart"}
          [] g = "support_ticket" -> {"user", "order"} ]

\* self.dependencies (main.py:44-51): generator name -> upstream names.
dependencies ==
    [ g \in {"product", "product_view", "wishlist", "cart", "order",
             "support_ticket"} |->
        CASE g = "product"        -> {"product_category"}
          [] g = "product_view"   -> {"product", "session"}
          [] g = "wishlist"       -> {"user", "product"}
          [] g = "cart"           -> {"user", "session", "product"}
          [] g = "order"          -> {"cart"}
          [] g = "support_ticket" -> {"user", "order"} ]

\* The relation a generator's rows are written to: the table of its
\* insert_record / send_event(store_in_db) calls.
Table(g) ==
    CASE g = "user"             -> "users"
      [] g = "product_category" -> "product_categories"
      [] g = "product"          -> "products"
      [] g = "session"          -> "sessions"
      [] g = "product_view"     -> "product_views"
      [] g = "wishlist"         -> "wishlists"
      [] g = "cart"             -> "carts"
      [] g = "order"            -> "orders"
      [] g = "support_ticket"   -> "support_tickets"

\* The relation check_dependencies reads for a dependency: main.py:69 builds
\* "SELECT 1 FROM {dependency} LIMIT 1", i.e. the dependency's own name.
CheckedRelation(d) == d

\* Generator modules that import `time`; the run() loops of the others call
\* time.sleep with the name unbound.
HasTimeImport(g) == g \in {"user", "session"}

\* Outcomes of one send_event call (event_generator.py:158-174): "unstored",
\* an exception before the row is stored (the simulated network failure of
\* line 161, or insert_record raising at line 167); "publish_failed", the row
\* is stored and producer.send / future.get raises; "acked", nothing raises.
SendOutcomes == {"acked", "unstored", "publish_failed"}

VARIABLES
    is_running,      \* DataGeneratorOrchestrator.is_running
    pc,              \* position of each generator's task
    orch,            \* position of the main thread
    cleanups,        \* number of generator.cleanup() calls per generator
    nonEmpty,        \* relations of the store that hold at least one row
    failed_events,   \* rows of the failed_events relation
    existing_users,  \* UserGenerator.existing_users is non-empty
    active_users,    \* SessionGenerator.active_users is non-empty
    categories,      \* ProductCategoryGenerator.categories is non-empty
    active_sessions, \* size of SessionGenerator.active_sessions
    last             \* what the most recent loop iteration did

vars == << is_running, pc, orch, cleanups, nonEmpty, failed_events,
           existing_users, active_users, categories, active_sessions, last >>

NoTick ==
    [ gen |-> "none", result |-> "none", handed |-> 0, acked |-> 0,
      quarantined |-> 0, ws_at_send |-> 0 ]

-----------------------------------------------------------------------------
(* State of single generators, used by the specifications that follow one   *)
(* generator through its iterations.  Amounts are in cents.                 *)

VARIABLES
    carts,           \* rows of carts, with their cart_items and the default
                     \* user_addresses of the cart's user
    orders,          \* rows of orders, in insertion order
    pending_carts,   \* OrderGenerator.pending_carts
    active_orders,   \* OrderGenerator.active_orders
    order_pc,        \* position of the order generator's run()
    order_last,      \* what its most recent iteration did
    cart_items,      \* rows of cart_items of the cart handed to generate_order
    order,           \* the order generate_order returned for them
    wishlists,       \* rows of wishlists, in insertion order
    wish_users,      \* WishlistGenerator.active_users
    wish_products,   \* WishlistGenerator.active_products
    wish_pc,         \* position of the wishlist generator's run()
    wish_last        \* what its most recent iteration did

VARIABLES
    active_carts,    \* CartGenerator.active_carts
    cart_pc,         \* position of the cart generator's run()
    cart_last,       \* what its most recent iteration did
    tickets,         \* rows of support_tickets, in insertion order
    ticket_messages, \* rows of ticket_messages, in insertion order
    active_tickets,  \* SupportTicketGenerator.active_tickets
    recent_orders,   \* SupportTicketGenerator.recent_orders
    ticket_pc,       \* position of the support ticket generator's run()
    ticket_last      \* what its most recent iteration did

VARIABLES
    cat_parents,     \* rows of product_categories in insertion order, each the
                     \* position of its parent row, 0 for a root; the
                     \* generator's self.categories holds the same rows
    cat_pc,          \* position of the category generator's run()
    cat_last         \* what its most recent iteration did

VARIABLES
    consumer_topic,  \* the topic the TopicConsumer subscribes to
    topic_messages,  \* the messages of that topic, in offset order
    consumer_offset, \* how many of them the consumer has taken
    mirror,          \* rows DatabaseWriter.write_event wrote, in order
    consumer_log,    \* the exceptions start_consuming logged, in order
    failure_count,   \* failed messages counted by the consumer
    consumer_last    \* what the most recent message led to

VARIABLES
    session_data,    \* the dict of the live session that the session
                     \* generator's active_sessions refers to
    send_last        \* the event handed to the most recent send_event call,
                     \* before and after the call

VARIABLES
    cart_snapshot,   \* whether CartGenerator.active_sessions and
                     \* CartGenerator.active_products hold an entry
    upstream,        \* whether the store holds an open session and an
                     \* active product in stock
    cart_gate        \* what upstream was when the cart generator's
                     \* dependency check passed

VARIABLES
    user_defaults,   \* for each user created during the run, the types of
                     \* the rows of user_addresses with is_default that
                     \* carry the user's id
    user_last        \* what the user generator's most recent iteration did

categoryVars == << cat_parents, cat_pc, cat_last >>
userVars   == << user_defaults, user_last >>
gateVars   == << upstream, cart_gate >>
sendVars   == << session_data, send_last >>
consumerVars == << consumer_topic, topic_messages, consumer_offset, mirror,
                   consumer_log, failure_count, consumer_last >>
lateVars   == << categoryVars, consumerVars, sendVars, gateVars, userVars >>

cartVars   == << active_carts, cart_pc, cart_last, cart_snapshot >>
ticketVars == << tickets, ticket_messages, active_tickets, recent_orders, ticket_pc,
                 ticket_last >>
moreVars   == << cartVars, ticketVars, lateVars >>

orderVars  == << carts, orders, pending_carts, active_orders, order_pc, order_last >>
amountVars == << cart_items, order >>
wishVars   == << wishlists, wish_users, wish_products, wish_pc, wish_last >>
genVars    == << orderVars, amountVars, wishVars, moreVars >>
allVars    == << vars, genVars >>

\* Python's None, where the other values are records.
None == [ none |-> TRUE ]

\* The generator is not part of the run.
OrderIdle ==
    /\ carts = << >>
    /\ orders = << >>
    /\ pending_carts = {}
    /\ active_orders = {}
    /\ order_pc = "absent"
    /\ order_last = None

AmountIdle ==
    /\ cart_items = << >>
    /\ order = None

WishIdle ==
    /\ wishlists = << >>
    /\ wish_users = {}
    /\ wish_products = {}
    /\ wish_pc = "absent"
    /\ wish_last = None

NoRows == [ sessions |-> FALSE, products |-> FALSE ]

CartIdle ==
    /\ active_carts = {}
    /\ cart_pc = "absent"
    /\ cart_last = None
    /\ cart_snapshot = NoRows

TicketIdle ==
    /\ active_tickets = {}
    /\ recent_orders = {}
    /\ ticket_pc = "absent"
    /\ ticket_last = None

CategoryIdle ==
    /\ cat_parents = << >>
    /\ cat_pc = "absent"
    /\ cat_last = None

ConsumerIdle ==
    /\ consumer_topic = "none"
    /\ topic_messages = << >>
    /\ consumer_offset = 0
    /\ mirror = << >>
    /\ consumer_log = << >>
    /\ failure_count = 0
    /\ consumer_last = None

SendIdle ==
    /\ session_data = None
    /\ send_last = None

GateIdle ==
    /\ upstream = NoRows
    /\ cart_gate = None

UserIdle ==
    /\ user_defaults = << >>
    /\ user_last = None

LateIdle == CategoryIdle /\ ConsumerIdle /\ SendIdle /\ GateIdle /\ UserIdle

\* None of these generators is part of the run, and no ticket is stored.
MoreIdle ==
    /\ CartIdle /\ TicketIdle /\ tickets = << >> /\ ticket_messages = << >>
    /\ LateIdle

\* The store when the generators are constructed: empty, or already holding
\* users and/or categories (the relations the constructors cache).
Init ==
    /\ is_running = TRUE
    /\ pc = [ g \in Generators |-> "unsubmitted" ]
    /\ orch = "run"
    /\ cleanups = [ g \in Generators |-> 0 ]
    /\ nonEmpty \in SUBSET {"users", "product_categories"}
    /\ failed_events = << >>
    /\ existing_users = ("users" \in nonEmpty)
    /\ active_users = ("users" \in nonEmpty)
    /\ categories = ("product_categories" \in nonEmpty)
    /\ active_sessions = 0
    /\ last = NoTick
    /\ OrderIdle /\ AmountIdle /\ WishIdle /\ MoreIdle


-----------------------------------------------------------------------------
(* BaseGenerator.send_event and store_failed_event *)

\* store_failed_event builds the row inside its try block with
\* 'error_message': str(e) (event_generator.py:185), but `e` is bound only by
\* the except clause that follows (line 187): the name is unbound when the row
\* is built, the lookup raises, and the except clause logs.
ErrorNameBound == FALSE

\* store_failed_event inserting the row a second time.
store_failed_event_twice(fe, topic) ==
    Append(Append(fe, [ topic |-> topic, retry_count |-> 0 ]),
           [ topic |-> topic, retry_count |-> 0 ])

\* event_generator.py:176-188.
store_failed_event(fe, topic) ==
    IF ErrorNameBound
    THEN Append(fe, [ topic |-> topic, retry_count |-> 0 ])
    ELSE fe

\* event_generator.py:158-174: any exception in the try block is logged and
\* the event handed to store_failed_event.
send_event(fe, topic, outcome) ==
    [ acked         |-> outcome = "acked",
      stored        |-> outcome \in {"acked", "publish_failed"},
      failed_events |-> IF outcome = "acked"
                        THEN fe
                        ELSE store_failed_event(fe, topic) ]

\* The send_event calls of one loop iteration, in order: UserGenerator
\* send_events makes three for a new user, every other path makes one.
RECURSIVE SendAll(_, _, _)
SendAll(fe, topics, outcomes) ==
    IF topics = << >>
    THEN [ acked |-> 0, stored |-> {}, failed_events |-> fe ]
    ELSE LET r    == send_event(fe, Head(topics), Head(outcomes))
             rest == SendAll(r.failed_events, Tail(topics), Tail(outcomes))
         IN  [ acked         |-> (IF r.acked THEN 1 ELSE 0) + rest.acked,
               stored        |-> (IF r.stored THEN {Head(topics)} ELSE {})
                                   \cup rest.stored,
               failed_events |-> rest.failed_events ]

-----------------------------------------------------------------------------
(* generate_event of each generator: what one call can do *)

\* Each outcome: result ("event", "noop" when generate_event returns None,
\* "raised" when it raises), the topics the run loop then hands to
\* send_event, the relations generate_event itself inserted into, and the
\* working set afterwards.
Outcome(result, topics, inserted, ws) ==
    [ result |-> result, topics |-> topics, inserted |-> inserted, ws |-> ws ]

\* user_generator.py:83-88 and send_events (136-149): generate_event touches
\* no store; a new user yields three events, an update one.
UserOutcomes ==
    { Outcome("event", << "users", "user_demographics", "user_addresses" >>,
              {}, active_sessions) }
    \cup
    ( IF existing_users
      THEN { Outcome("event", << t >>, {}, active_sessions) :
                t \in {"users", "user_demographics", "user_addresses"} }
      ELSE {} )

\* session_generator.py:104-120.
SessionOutcomes ==
    ( IF active_sessions > 0
      THEN { Outcome("event", << "sessions" >>, {}, active_sessions),
             Outcome("event", << "sessions" >>, {}, active_sessions - 1) }
      ELSE {} )
    \cup
    ( IF active_users
      THEN ( IF active_sessions < MaxActive
             THEN { Outcome("event", << "sessions" >>, {}, active_sessions + 1) }
             ELSE {} )
      ELSE { Outcome("raised", << >>, {}, active_sessions) } )

\* product_category_generator.py:56-78.
CategoryOutcomes ==
    { Outcome("event", << "product_categories" >>, {"product_categories"},
              active_sessions),
      Outcome("raised", << >>, {}, active_sessions) }
    \cup
    ( IF categories
      THEN { Outcome("noop", << >>, {}, active_sessions) }
      ELSE {} )

\* The generate_event of the generators with declared dependencies: it
\* creates or updates an entity of its own table, finds nothing to do, or
\* raises on a store error.
SendTopic(g) == IF g = "cart" THEN "cart_events" ELSE Table(g)

DependentOutcomes(g) ==
    { Outcome("event", << SendTopic(g) >>, {Table(g)}, active_sessions),
      Outcome("event", << SendTopic(g) >>, {}, active_sessions),
      Outcome("noop", << >>, {}, active_sessions),
      Outcome("raised", << >>, {}, active_sessions) }

GenerateOutcomes(g) ==
    CASE g = "user"             -> UserOutcomes
      [] g = "session"          -> SessionOutcomes
      [] g = "product_category" -> CategoryOutcomes
      [] OTHER                  -> DependentOutcomes(g)


-----------------------------------------------------------------------------
(* The store relations the model tracks *)

Relations ==
    { Table(g) : g \in Generators } \cup { CheckedRelation(g) : g \in Generators }

-----------------------------------------------------------------------------
(* DataGeneratorOrchestrator *)

\* main.py:58-61.  The handler runs on SIGINT/SIGTERM at any moment.
handle_shutdown ==
    /\ orch # "exit"
    /\ is_running
    /\ is_running' = FALSE
    /\ UNCHANGED << pc, orch, cleanups, nonEmpty, failed_events,
                    existing_users, active_users, categories,
                    active_sessions, last >>
    /\ UNCHANGED genVars

\* check_dependencies with the except clause returning True.
check_dependencies_error_passes(g, queryError) ==
    \/ g \notin DOMAIN dependencies
    \/ queryError
    \/ \A d \in dependencies[g] : CheckedRelation(d) \in nonEmpty

\* main.py:63-79.  queryError: a query raised (relation missing, connection
\* lost); the except clause logs and returns False.  A relation that does not
\* exist holds no row: the query on it raises and the result is False too.
check_dependencies(g, queryError) ==
    \/ g \notin DOMAIN dependencies
    \/ /\ ~queryError
       /\ \A d \in dependencies[g] : CheckedRelation(d) \in nonEmpty

\* main.py:107-120: the tasks are submitted one by one, the generators
\* without declared dependencies first, then the others, each in the order
\* of self.generators, with a two-second sleep after each.
SubmitOrder ==
    SelectSeq(GeneratorOrder, LAMBDA g : g \notin DOMAIN dependencies)
      \o SelectSeq(GeneratorOrder, LAMBDA g : g \in DOMAIN dependencies)

Unsubmitted == { i \in 1..Len(SubmitOrder) : pc[SubmitOrder[i]] = "unsubmitted" }

Submit ==
    /\ orch = "run"
    /\ Unsubmitted # {}
    /\ LET i == CHOOSE j \in Unsubmitted : \A k \in Unsubmitted : j <= k
       IN  pc' = [ pc EXCEPT ![SubmitOrder[i]] = "waiting" ]
    /\ UNCHANGED << is_running, orch, cleanups, nonEmpty, failed_events,
                    existing_users, active_users, categories,
                    active_sessions, last >>
    /\ UNCHANGED genVars

\* main.py:86-91: one evaluation of the polling loop's condition.  With the
\* flag cleared the loop ends and the task returns at line 91; with the
\* dependencies present the task goes on to generator.run(); otherwise it
\* sleeps ten seconds and evaluates the condition again.
PollDependencies(g) ==
    /\ pc[g] = "waiting"
    /\ \E queryError \in BOOLEAN :
         pc' = [ pc EXCEPT ![g] =
                   IF ~is_running THEN "stopped"
                   ELSE IF check_dependencies(g, queryError) THEN "running"
                   ELSE "waiting" ]
    /\ UNCHANGED << is_running, orch, cleanups, nonEmpty, failed_events,
                    existing_users, active_users, categories,
                    active_sessions, last >>
    /\ UNCHANGED genVars

\* cleanup closing the producer and connection of every generator.
cleanup_closing_all(cl, g) == [ h \in Generators |-> cl[h] + 1 ]

\* BaseGenerator.cleanup (event_generator.py:190-198): closes the producer
\* and the connection of generator g; counted per call.
cleanup(cl, g) == [ cl EXCEPT ![g] = @ + 1 ]

\* One iteration of generator.run() (`while True: try: ... except ...`):
\* generate_event, the send_event calls, then the sleep.  Where the module
\* imports time the loop goes round again, also after an exception (the
\* handler logs and sleeps five seconds).  Where it does not, time.sleep
\* raises NameError, the handler's time.sleep raises it again, the exception
\* leaves run(), and run_generator (main.py:93-101) logs it and calls
\* generator.cleanup() in its finally clause before the task returns.
Tick(g) ==
    /\ pc[g] = "running"
    /\ \E o \in GenerateOutcomes(g) :
       \E outcomes \in [ 1..Len(o.topics) -> SendOutcomes ] :
          LET sent == SendAll(failed_events, o.topics, outcomes)
          IN  /\ failed_events' = sent.failed_events
              /\ nonEmpty' = nonEmpty \cup ((o.inserted \cup sent.stored) \cap Relations)
              /\ active_sessions' = o.ws
              /\ categories' = (categories \/ (g = "product_category" /\ o.result = "event"))
              /\ last' = [ gen         |-> g,
                           result      |-> o.result,
                           handed      |-> Len(o.topics),
                           acked       |-> sent.acked,
                           quarantined |-> Len(sent.failed_events) - Len(failed_events),
                           ws_at_send  |-> o.ws ]
    /\ IF HasTimeImport(g)
       THEN UNCHANGED << pc, cleanups >>
       ELSE /\ pc' = [ pc EXCEPT ![g] = "crashed" ]
            /\ cleanups' = cleanup(cleanups, g)
    /\ UNCHANGED << is_running, orch, existing_users, active_users >>
    /\ UNCHANGED genVars

\* run() returning while submitted tasks are still polling or running.
Join_without_waiting ==
    /\ orch = "run"
    /\ Unsubmitted = {}
    /\ orch' = "cleanup"
    /\ UNCHANGED << is_running, pc, cleanups, nonEmpty, failed_events,
                    existing_users, active_users, categories,
                    active_sessions, last >>
    /\ UNCHANGED genVars

\* main.py:122-127 and the end of the `with ThreadPoolExecutor` block: run()
\* returns once every submitted task has returned.
Join ==
    /\ orch = "run"
    /\ \A g \in Generators : pc[g] \in {"crashed", "stopped"}
    /\ orch' = "cleanup"
    /\ UNCHANGED << is_running, pc, cleanups, nonEmpty, failed_events,
                    existing_users, active_users, categories,
                    active_sessions, last >>
    /\ UNCHANGED genVars

\* main.py:129-136 from the finally clause of __main__ (144-146): cleanup()
\* of every generator, then sys.exit(0).
RECURSIVE CleanupAll(_, _)
CleanupAll(cl, gs) ==
    IF gs = << >> THEN cl ELSE CleanupAll(cleanup(cl, Head(gs)), Tail(gs))

OrchestratorCleanup ==
    /\ orch = "cleanup"
    /\ cleanups' = CleanupAll(cleanups, GeneratorOrder)
    /\ orch' = "exit"
    /\ UNCHANGED << is_running, pc, nonEmpty, failed_events,
                    existing_users, active_users, categories,
                    active_sessions, last >>
    /\ UNCHANGED genVars

Next ==
    \/ handle_shutdown
    \/ Submit
    \/ \E g \in Generators : PollDependencies(g)
    \/ \E g \in Generators : Tick(g)
    \/ Join
    \/ OrchestratorCleanup

Spec == Init /\ [][Next]_vars

TypeOK ==
    /\ is_running \in BOOLEAN
    /\ pc \in [ Generators -> {"unsubmitted", "waiting", "running", "crashed", "stopped"} ]
    /\ orch \in {"run", "cleanup", "exit"}
    /\ nonEmpty \subseteq Relations
    /\ active_sessions \in 0..MaxActive


-----------------------------------------------------------------------------
(* Publish or quarantine *)

\* C1: every event handed to send_event during a loop iteration is, when
\* send_event has returned, either acknowledged by the log or a row of
\* failed_events.
C1_PublishedOrQuarantined ==
    last.handed = last.acked + last.quarantined

\* C2: each failed publish creates exactly one failed_events row, with
\* retry_count 0, and leaves the generator's working set as it was when the
\* event was handed over.
C2_OneQuarantinedRowPerFailure ==
    last.acked < last.handed =>
        /\ last.quarantined = last.handed - last.acked
        /\ \A i \in 1..Len(failed_events) : failed_events[i].retry_count = 0
        /\ last.gen = "session" => active_sessions = last.ws_at_send

\* A publish failed in the session generator, which holds a working set.
C2_FailedPublishSeen ==
    /\ last.gen = "session"
    /\ last.handed = 1
    /\ last.acked = 0
    /\ last.ws_at_send = 1

-----------------------------------------------------------------------------
(* Dependency gate *)

UpstreamPopulated(g) == \A d \in dependencies[g] : Table(d) \in nonEmpty

\* C4: for a waiting generator whose upstream tables all hold a row, and
\* with no shutdown signalled, the next evaluation of the polling loop's
\* condition in which no query raises succeeds, so that the generator leaves
\* the loop for generator.run().
C4_CheckSucceedsWhenPopulated ==
    \A g \in DOMAIN dependencies :
        (pc[g] = "waiting" /\ is_running /\ UpstreamPopulated(g))
            => check_dependencies(g, FALSE)

\* C5 as stated: only the user generator reaches generator.run() without a
\* dependency gate.
C5_OnlyUserUngated ==
    \A g \in Generators : pc[g] \in {"running", "crashed"} => g = "user"

\* C5 amended: the generators whose dependency check passes without reading
\* the store are user, product_category and session; only they reach
\* generator.run() on a store whose checked relations are empty, every other
\* generator stays in the polling loop (or returns from it on shutdown).
C5_UngatedGenerators ==
    \A g \in Generators :
        /\ check_dependencies(g, TRUE) <=> g \in {"user", "product_category", "session"}
        /\ g \notin {"user", "product_category", "session"}
             => pc[g] \in {"unsubmitted", "waiting", "stopped"}

\* Started on an empty store: the three generators without declared
\* dependencies are running, the six others are polling.
C5_EmptyStoreStart ==
    /\ nonEmpty = {}
    /\ \A g \in {"user", "product_category", "session"} : pc[g] = "running"
    /\ \A g \in DOMAIN dependencies : pc[g] = "waiting"

-----------------------------------------------------------------------------
(* Crash, restart, isolation *)

\* C6: a generator whose run() raised is started again: with no shutdown
\* signalled its task has a further step to take (a poll or a loop
\* iteration), so it does not stay crashed.
C6_CrashedCanRunAgain ==
    \A g \in Generators :
        (pc[g] = "crashed" /\ is_running)
            => ENABLED (PollDependencies(g) \/ Tick(g))

\* C7: the step in which one generator's run() raises and its task cleans up
\* changes nothing of any other task or of the orchestrator: the flag and the
\* main thread's position stay, every other task stays where it is, and one
\* that is running still has its connection and producer open.
C7_CrashIsolated ==
    [][ \A g \in Generators :
          (pc[g] = "running" /\ pc'[g] = "crashed") =>
             /\ is_running' = is_running
             /\ orch' = orch
             /\ \A h \in Generators \ {g} :
                   /\ pc'[h] = pc[h]
                   /\ cleanups'[h] = cleanups[h]
                   /\ pc[h] = "running" => cleanups'[h] = 0 ]_vars

\* A generator has crashed and been cleaned up while two others are running
\* with their resources open.
C7_CrashBesideRunning ==
    /\ pc["product_category"] = "crashed"
    /\ cleanups["product_category"] = 1
    /\ pc["user"] = "running" /\ cleanups["user"] = 0
    /\ pc["session"] = "running" /\ cleanups["session"] = 0
    /\ last.gen = "session"

\* C8: after a loop iteration that failed (generate_event raised or found
\* nothing to do, or a publish failed) the generator is still in its loop.
C8_LoopSurvivesFailure ==
    ( /\ last.gen \in Generators
      /\ (last.result \in {"noop", "raised"} \/ last.acked < last.handed) )
        => pc[last.gen] = "running"

-----------------------------------------------------------------------------
(* Shutdown and cleanup *)

\* C9: once is_running is cleared no generator starts a loop iteration.
C9_NoTickAfterShutdown ==
    [][ ~is_running => ~(\E g \in Generators : Tick(g)) ]_vars

\* C10: cleanup is invoked at most once on each generator, and exactly once
\* by the time the process exits.
C10_CleanupExactlyOnce ==
    \A g \in Generators :
        /\ cleanups[g] <= 1
        /\ orch = "exit" => cleanups[g] = 1

-----------------------------------------------------------------------------
\* C11: a generator's producer and connection are released only after every
\* generator task has exited: while any task is still polling or running,
\* no generator has had cleanup() called on it.
C11_ReleaseAfterAllExited ==
    (\E h \in Generators : pc[h] \in {"waiting", "running"})
        => \A g \in Generators : cleanups[g] = 0

\* A generator's resources have been released by run_generator's finally
\* clause while the task of another generator is inside run().
C11_ReleasedBesideRunning ==
    \E g, h \in Generators : cleanups[g] > 0 /\ pc[h] = "running"

\* The upstream references generate_event of g looks for are all absent.
\* SessionGenerator needs a user (session_generator.py:64-66).
NoUpstream(g) ==
    /\ g = "session"
    /\ ~active_users

\* C19: a create tick that finds no valid upstream reference is a no-op: it
\* raises no error, writes nothing to the store and hands no event to
\* send_event.
C19_NoUpstreamIsNoop ==
    (last.gen \in Generators /\ NoUpstream(last.gen))
        => (last.result = "noop" /\ last.handed = 0)

\* The session generator has run an iteration with no user loaded.
C19_SessionTickWithoutUsers ==
    last.gen = "session" /\ ~active_users /\ last.result = "raised"

-----------------------------------------------------------------------------
(* BaseGenerator.send_event, step by step *)

\* What makes a send_event call fail: nothing; the simulated network issue
\* of line 161; insert_record raising at line 167; producer.send or
\* future.get raising at lines 169-170.
SendCauses == {"none", "network", "insert", "publish"}

\* event_generator.py:158-174: the statements of the one try block run in
\* order and the first exception ends the block.
send_event_attempts(cause) ==
    [ store_attempted   |-> cause # "network",
      publish_attempted |-> cause \in {"none", "publish"},
      outcome           |-> CASE cause = "none"    -> "acked"
                              [] cause = "publish" -> "publish_failed"
                              [] OTHER             -> "unstored" ]

-----------------------------------------------------------------------------
(* OrderGenerator (order_generator.py) *)

MaxCarts == 1
MaxOrders == 2
MaxItems == 2
MaxQuantity == 2

Carts == 1..MaxCarts

\* Unit prices, in cents, of the cart items considered.
Prices == {5, 2500, 10000, 20001, 20005, 25000}

OrderStatuses == {"pending", "processing", "shipped", "delivered", "cancelled"}

\* status_flow with pending leading straight to shipped.
status_flow_skipping ==
    [ s \in {"pending", "processing", "shipped"} |->
        CASE s = "pending"    -> "shipped"
          [] s = "processing" -> "shipped"
          [] s = "shipped"    -> "delivered" ]

\* order_generator.py:134-138
status_flow ==
    [ s \in {"pending", "processing", "shipped"} |->
        CASE s = "pending"    -> "processing"
          [] s = "processing" -> "shipped"
          [] s = "shipped"    -> "delivered" ]

\* update_order_status writing cancelled over a pending order.
update_order_status_cancelling(rows, order_id, current_status) ==
    IF current_status = "pending"
    THEN [ rows       |-> [ rows EXCEPT ![order_id].status = "cancelled" ],
           new_status |-> "cancelled" ]
    ELSE [ rows |-> rows, new_status |-> current_status ]

\* order_generator.py:132-153: writes the successor of current_status, the
\* status the caller passes in, to the row of order_id.
update_order_status(rows, order_id, current_status) ==
    IF current_status \in DOMAIN status_flow
    THEN [ rows       |-> [ rows EXCEPT ![order_id].status = status_flow[current_status] ],
           new_status |-> status_flow[current_status] ]
    ELSE [ rows |-> rows, new_status |-> current_status ]

\* sum(item['quantity'] * item['unit_price'] for item in cart_items)
RECURSIVE subtotal(_)
subtotal(items) ==
    IF items = << >> THEN 0
    ELSE Head(items).quantity * Head(items).unit_price + subtotal(Tail(items))

\* round(x, 2) of x = num/den cents, a non-negative amount: the nearest
\* cent.  A value halfway between two cents has no exact binary
\* representation and goes to either side (tieUp).
round2(num, den, tieUp) ==
    LET q == num \div den
        r == num % den
    IN  IF 2 * r < den THEN q
        ELSE IF 2 * r > den THEN q + 1
        ELSE IF tieUp THEN q + 1 ELSE q

tax_rate == 8
shipping_base == 1000

\* Shipping charged up to and including a subtotal of 100.
shipping_amount_through_100(sub) == IF sub <= 10000 THEN shipping_base ELSE 0

\* order_generator.py:53
shipping_amount(sub) == IF sub < 10000 THEN shipping_base ELSE 0

\* calculate_order_amounts adding the discount to the total.
calculate_order_amounts_adding_discount(items, tieUp) ==
    LET sub      == subtotal(items)
        tax      == round2(sub * tax_rate, 100, tieUp)
        shipping == shipping_amount(sub)
        discount == IF sub > 20000 THEN round2(sub * 10, 100, tieUp) ELSE 0
    IN  [ total_amount    |-> sub + tax + shipping + discount,
          tax_amount      |-> tax,
          shipping_amount |-> shipping,
          discount_amount |-> discount ]

\* order_generator.py:46-67
calculate_order_amounts(items, tieUp) ==
    LET sub      == subtotal(items)
        tax      == round2(sub * tax_rate, 100, tieUp)
        shipping == shipping_amount(sub)
        discount == IF sub > 20000 THEN round2(sub * 10, 100, tieUp) ELSE 0
    IN  [ total_amount    |-> sub + tax + shipping - discount,
          tax_amount      |-> tax,
          shipping_amount |-> shipping,
          discount_amount |-> discount ]

\* The rows the query of lines 72-76 returns: removed_timestamp IS NULL.
NonRemoved(rows) == SelectSeq(rows, LAMBDA it : ~it.removed)

\* order_generator.py:115-128: the order item made from one cart item,
\* with its discount_amount round(unit_price * quantity *
\* (discount_amount / total_amount), 2), or 0 when total_amount is not
\* positive.
generate_order_item(item, amounts, tieUp) ==
    [ quantity        |-> item.quantity,
      unit_price      |-> item.unit_price,
      discount_amount |->
          IF amounts.total_amount > 0
          THEN round2(item.unit_price * item.quantity * amounts.discount_amount,
                      amounts.total_amount, tieUp)
          ELSE 0 ]

\* generate_order without the check of the two default addresses.
generate_order_without_addresses(cart_id, rows, addresses, tieUp) ==
    IF NonRemoved(rows) = << >> THEN None
    ELSE LET amounts == calculate_order_amounts(NonRemoved(rows), tieUp)
         IN  [ cart_id         |-> cart_id,
               status          |-> "pending",
               total_amount    |-> amounts.total_amount,
               tax_amount      |-> amounts.tax_amount,
               shipping_amount |-> amounts.shipping_amount,
               discount_amount |-> amounts.discount_amount,
               items           |-> [ k \in DOMAIN NonRemoved(rows) |->
                                       generate_order_item(NonRemoved(rows)[k],
                                                           amounts, tieUp) ] ]

\* order_generator.py:69-113: None without a non-removed cart item or
\* without both a default billing and a default shipping address.
generate_order(cart_id, rows, addresses, tieUp) ==
    IF NonRemoved(rows) = << >> THEN None
    ELSE IF ~({"billing", "shipping"} \subseteq addresses) THEN None
    ELSE LET amounts == calculate_order_amounts(NonRemoved(rows), tieUp)
         IN  [ cart_id         |-> cart_id,
               status          |-> "pending",
               total_amount    |-> amounts.total_amount,
               tax_amount      |-> amounts.tax_amount,
               shipping_amount |-> amounts.shipping_amount,
               discount_amount |-> amounts.discount_amount,
               items           |-> [ k \in DOMAIN NonRemoved(rows) |->
                                       generate_order_item(NonRemoved(rows)[k],
                                                           amounts, tieUp) ] ]

\* order_generator.py:13-30, the two queries over carts and orders.
load_pending_carts(cs, os) ==
    { c \in DOMAIN cs : /\ cs[c].status = "converted"
                        /\ ~\E i \in DOMAIN os : os[i].cart_id = c }

load_active_orders(os) ==
    { [ order_id |-> i, status |-> os[i].status ] :
        i \in { j \in DOMAIN os : os[j].status \notin {"delivered", "cancelled"} } }

\* What generate_event (order_generator.py:155-180) can do on the snapshot
\* it holds: the new rows of orders, the event it returns (None for none)
\* with its order_id and new_status, and whether it raised.  fault: update_record or an insert_record raises.
OrderUpdateOutcomes ==
    { [ type   |-> IF fault /\ o.status \in DOMAIN status_flow
                   THEN "raised" ELSE "order_update",
        cart   |-> 0,
        order  |-> o.order_id,
        new_status |-> update_order_status(orders, o.order_id, o.status).new_status,
        orders |-> IF fault THEN orders
                   ELSE update_order_status(orders, o.order_id, o.status).rows ] :
        o \in active_orders, fault \in BOOLEAN }

OrderCreateOutcomes ==
    { IF generate_order(c, carts[c].items, carts[c].addresses, t[1]) = None
      THEN [ type |-> "skip", cart |-> c, order |-> 0, new_status |-> "none",
             orders |-> orders ]
      ELSE CASE t[2] = "none" ->
                  [ type   |-> "order_create", cart |-> c,
                    order  |-> Len(orders) + 1, new_status |-> "pending",
                    orders |-> Append(orders, generate_order(c, carts[c].items,
                                                 carts[c].addresses, t[1])) ]
             [] t[2] = "orders" ->
                  [ type |-> "raised", cart |-> c, order |-> 0,
                    new_status |-> "none", orders |-> orders ]
             [] OTHER ->
                  [ type   |-> "raised", cart |-> c,
                    order  |-> Len(orders) + 1, new_status |-> "pending",
                    orders |-> Append(orders, generate_order(c, carts[c].items,
                                                 carts[c].addresses, t[1])) ] :
      c \in pending_carts,
      t \in BOOLEAN \X {"none", "orders", "order_items"} }

OrderEventOutcomes ==
    (IF active_orders # {} THEN OrderUpdateOutcomes ELSE {})
      \cup (IF pending_carts # {}
            THEN OrderCreateOutcomes
            ELSE { [ type |-> "skip", cart |-> 0, order |-> 0, new_status |-> "none",
                     orders |-> orders ] })

\* The carts an order generator can find in the store, with their status,
\* their cart_items and the default addresses of their user: a cart still
\* active; converted carts without a non-removed item, without a default
\* shipping address, and with both.
OneItem == << [ quantity |-> 1, unit_price |-> 2500, removed |-> FALSE ] >>

CartRows ==
    { [ status |-> "active",    items |-> OneItem, addresses |-> {"billing", "shipping"} ],
      [ status |-> "converted", items |-> << >>,   addresses |-> {"billing", "shipping"} ],
      [ status |-> "converted", items |-> OneItem, addresses |-> {"billing"} ],
      [ status |-> "converted", items |-> OneItem, addresses |-> {"billing", "shipping"} ] }

\* The orders already there: none, or one of an earlier cart.
EarlierOrders ==
    { << >> } \cup
    { << [ cart_id |-> 0, status |-> s, total_amount |-> 3700, tax_amount |-> 200,
           shipping_amount |-> 1000, discount_amount |-> 0 ] >> : s \in OrderStatuses }

\* A ticket of an earlier run with its first message, as generate_ticket
\* writes them.
EarlierTickets ==
    << [ order_id |-> 0, status |-> "open", resolved_at |-> FALSE,
         satisfaction_score |-> 0 ] >>

EarlierMessages == << [ ticket_id |-> 1, sender_type |-> "customer" ] >>

OrchIdle ==
    /\ is_running = TRUE
    /\ pc = [ g \in Generators |-> "unsubmitted" ]
    /\ orch = "run"
    /\ cleanups = [ g \in Generators |-> 0 ]
    /\ nonEmpty = {}
    /\ failed_events = << >>
    /\ existing_users = FALSE
    /\ active_users = FALSE
    /\ categories = FALSE
    /\ active_sessions = 0
    /\ last = NoTick

\* OrderGenerator.__init__ (lines 9-11) on such a store, which also holds a
\* ticket.
OrderInit ==
    /\ OrchIdle /\ AmountIdle /\ WishIdle /\ CartIdle /\ TicketIdle /\ LateIdle
    /\ tickets = EarlierTickets
    /\ ticket_messages = EarlierMessages
    /\ carts \in [ Carts -> CartRows ]
    /\ orders \in EarlierOrders
    /\ pending_carts = load_pending_carts(carts, orders)
    /\ active_orders = load_active_orders(orders)
    /\ order_pc = "running"
    /\ order_last = None

\* Lines 186-188 of run(): generate_event, then send_event if it returned an
\* event.
OrderGenerateAndSend ==
    \E out \in OrderEventOutcomes :
    \E cause \in SendCauses :
       LET sends == out.type \in {"order_update", "order_create"}
           att   == send_event_attempts(cause)
       IN  /\ sends \/ cause = "none"
           /\ Len(out.orders) <= MaxOrders
           /\ orders' = out.orders
           /\ failed_events' =
                 IF sends THEN send_event(failed_events, "orders", att.outcome).failed_events
                 ELSE failed_events
           /\ order_last' = [ type              |-> out.type,
                              cart              |-> out.cart,
                              order             |-> out.order,
                              new_status        |-> out.new_status,
                              store_attempted   |-> sends /\ att.store_attempted,
                              publish_attempted |-> sends /\ att.publish_attempted,
                              cause             |-> cause ]

\* One tick of the order generator: generate_event and send_event on the
\* snapshots the generator holds.
OrderTick ==
    /\ order_pc = "running"
    /\ OrderGenerateAndSend
    /\ UNCHANGED << carts, pending_carts, active_orders, order_pc, amountVars, wishVars >>
    /\ UNCHANGED moreVars
    /\ UNCHANGED << is_running, pc, orch, cleanups, nonEmpty, existing_users,
                    active_users, categories, active_sessions, last >>

\* load_active_data (lines 13-37): the snapshot refresh, called by the
\* constructor and from line 195.
OrderRefresh ==
    /\ order_pc = "running"
    /\ pending_carts' = load_pending_carts(carts, orders)
    /\ active_orders' = load_active_orders(orders)
    /\ UNCHANGED << carts, orders, order_pc, order_last, amountVars, wishVars, vars >>
    /\ UNCHANGED moreVars

OrderNext ==
    \/ OrderTick
    \/ OrderRefresh

\* The order generator's ticks and snapshot refreshes, in any order.
OrderSpec == OrderInit /\ [][OrderNext]_allVars

\* One iteration of OrderGenerator.run (lines 182-199) as the module stands:
\* the tick, the sleep, and the refresh taken with probability 0.2.
\* order_generator.py does not import time: the sleep raises NameError, so
\* does the one in the handler, and run() is left.
OrderRunIteration ==
    /\ order_pc = "running"
    /\ OrderGenerateAndSend
    /\ IF HasTimeImport("order")
       THEN /\ order_pc' = order_pc
            /\ \E refresh \in BOOLEAN :
                 IF /\ refresh
                    /\ order_last'.type # "raised"
                    /\ (order_last'.cause = "none" \/ ErrorNameBound)
                 THEN /\ pending_carts' = load_pending_carts(carts, orders')
                      /\ active_orders' = load_active_orders(orders')
                 ELSE UNCHANGED << pending_carts, active_orders >>
       ELSE /\ order_pc' = "crashed"
            /\ UNCHANGED << pending_carts, active_orders >>
    /\ UNCHANGED << carts, amountVars, wishVars >>
    /\ UNCHANGED moreVars
    /\ UNCHANGED << is_running, pc, orch, cleanups, nonEmpty, existing_users,
                    active_users, categories, active_sessions, last >>

\* OrderGenerator.run() from construction on, its loop taking its steps.
OrderRunSpec == OrderInit /\ [][OrderRunIteration]_allVars /\ WF_allVars(OrderRunIteration)

-----------------------------------------------------------------------------
(* Properties of the order generator *)

\* The rows of orders made from cart c.
OrdersOf(c) == { i \in DOMAIN orders : orders[i].cart_id = c }

\* C12: every entity held in a generator's working set has a non-terminal
\* status in the store; an order whose status became terminal is out of
\* active_orders by the end of the iteration that made it so.
C12_WorkingSetNonTerminal ==
    \A o \in active_orders :
        orders[o.order_id].status \notin {"delivered", "cancelled"}

\* An iteration of the order generator has just written `delivered`.
C12_OrderJustDelivered ==
    /\ order_last # None
    /\ order_last.type = "order_update"
    /\ \E o \in active_orders : o.status = "shipped"
                                /\ orders[o.order_id].status = "delivered"

\* C13: in every step an order's stored status stays as it is or moves to
\* the next status of pending, processing, shipped, delivered: never
\* backward, never past an intermediate status.
C13_StatusOneStepForward ==
    [][ LET path == << "pending", "processing", "shipped", "delivered" >>
        IN  \A i \in DOMAIN orders :
              \/ orders'[i].status = orders[i].status
              \/ \E k \in 1..3 : /\ orders[i].status = path[k]
                                 /\ orders'[i].status = path[k + 1] ]_allVars

\* An order the generator created has been taken through to delivered.
C13_CreatedOrderDelivered ==
    \E i \in DOMAIN orders : orders[i].cart_id \in Carts /\ orders[i].status = "delivered"

\* C14: at most one order exists per cart, and an order_create tick leaves
\* exactly one order for its cart: creation attempted again for a cart that
\* has an order creates no second one.
C14_OneOrderPerCart ==
    /\ \A c \in Carts : Cardinality(OrdersOf(c)) <= 1
    /\ (order_last # None /\ order_last.type = "order_create")
          => Cardinality(OrdersOf(order_last.cart)) = 1

\* A cart with an order is still in pending_carts.
C14_StalePendingCart ==
    \E c \in pending_carts : OrdersOf(c) # {}

\* C15: every converted cart eventually has an order created from it.  Taken
\* for the carts generate_order accepts: at least one non-removed item and
\* both default addresses.
C15_ConvertedCartGetsOrder ==
    \A c \in Carts :
        ( /\ carts[c].status = "converted"
          /\ NonRemoved(carts[c].items) # << >>
          /\ {"billing", "shipping"} \subseteq carts[c].addresses )
        ~> (OrdersOf(c) # {})

\* The order generator has left run() with such a cart still without order.
C15_CrashedWithPendingCart ==
    /\ order_pc = "crashed"
    /\ \E c \in pending_carts :
          /\ OrdersOf(c) = {}
          /\ generate_order(c, carts[c].items, carts[c].addresses, TRUE) # None

\* C20: when an event is sent, the store write and the publish are each
\* attempted, whatever happens to the other.
C20_BothAttempted ==
    (order_last # None /\ order_last.type \in {"order_update", "order_create"})
        => (order_last.store_attempted /\ order_last.publish_attempted)

\* A send_event call ended by the simulated network failure.
C20_InjectedFailureSeen ==
    /\ order_last # None
    /\ order_last.type \in {"order_update", "order_create"}
    /\ order_last.cause = "network"

-----------------------------------------------------------------------------
(* generate_order on the cart_items of one converted cart *)

CartItemRows ==
    [ quantity : 1..MaxQuantity, unit_price : Prices, removed : BOOLEAN ]

AmountInit ==
    /\ OrchIdle /\ OrderIdle /\ WishIdle /\ MoreIdle
    /\ cart_items \in UNION { [ 1..n -> CartItemRows ] : n \in 0..MaxItems }
    /\ order = None

\* order_generator.py:170: order, order_items = self.generate_order(cart_data)
GenerateOrder ==
    /\ order = None
    /\ \E addresses \in { {"billing"}, {"billing", "shipping"} } :
       \E tieUp \in BOOLEAN :
          order' = generate_order(1, cart_items, addresses, tieUp)
    /\ UNCHANGED << cart_items, orderVars, wishVars, vars >>
    /\ UNCHANGED moreVars

AmountSpec == AmountInit /\ [][GenerateOrder]_allVars

\* The subtotal of the order made: over the non-removed items of the cart.
OrderSubtotal == subtotal(NonRemoved(cart_items))

\* C16 as stated: total_amount = subtotal + tax_amount + shipping_amount -
\* discount_amount, shipping_amount is 0 or 10, and discount_amount is 0 or
\* 10% of subtotal.
C16_TotalWithExactDiscount ==
    order # None =>
        /\ order.total_amount = OrderSubtotal + order.tax_amount
                                  + order.shipping_amount - order.discount_amount
        /\ order.shipping_amount \in {0, 1000}
        /\ (order.discount_amount = 0 \/ 10 * order.discount_amount = OrderSubtotal)

\* C16: total_amount = subtotal + tax_amount + shipping_amount -
\* discount_amount over the non-removed items, shipping_amount is 0 or 10,
\* and discount_amount is 0 or 10% of subtotal rounded to the cent.
C16_TotalWithRoundedDiscount ==
    order # None =>
        /\ order.total_amount = OrderSubtotal + order.tax_amount
                                  + order.shipping_amount - order.discount_amount
        /\ order.shipping_amount \in {0, 1000}
        /\ \/ order.discount_amount = 0
           \/ /\ 10 * order.discount_amount >= OrderSubtotal - 5
              /\ 10 * order.discount_amount <= OrderSubtotal + 5

\* An order made with a discount that is not a whole number of cents before
\* rounding, from a cart that also holds a removed item.
C16_DiscountRounded ==
    /\ order # None
    /\ order.discount_amount > 0
    /\ 10 * order.discount_amount # OrderSubtotal
    /\ \E i \in DOMAIN cart_items : cart_items[i].removed

-----------------------------------------------------------------------------
(* WishlistGenerator (wishlist_generator.py) *)

MaxWishUsers == 2
MaxWishProducts == 1
MaxWishRows == 2

WishUsers == 1..MaxWishUsers
WishProducts == 1..MaxWishProducts

\* check_existing_wishlist finding no row whatever the store holds.
check_existing_wishlist_blind(rows, user_id, product_id) == FALSE

\* wishlist_generator.py:26-34
check_existing_wishlist(rows, user_id, product_id) ==
    \E i \in DOMAIN rows : /\ rows[i].user_id = user_id
                           /\ rows[i].product_id = product_id
                           /\ ~rows[i].removed

\* The add branch of generate_event (lines 96-103) with generate_wishlist_item
\* (36-62): no event without a user or a product in the snapshot, none for a
\* pair check_existing_wishlist finds; otherwise the row is inserted (fault:
\* insert_record raises) and a wishlist_add event returned.
WishAddOutcomes ==
    IF wish_users = {} \/ wish_products = {}
    THEN { [ type |-> "none", user_id |-> 0, product_id |-> 0, rows |-> wishlists ] }
    ELSE { IF check_existing_wishlist(wishlists, t[1], t[2])
           THEN [ type |-> "none", user_id |-> t[1], product_id |-> t[2],
                  rows |-> wishlists ]
           ELSE IF t[3]
           THEN [ type |-> "raised", user_id |-> t[1], product_id |-> t[2],
                  rows |-> wishlists ]
           ELSE [ type |-> "wishlist_add", user_id |-> t[1], product_id |-> t[2],
                  rows |-> Append(wishlists, [ user_id    |-> t[1],
                                               product_id |-> t[2],
                                               removed    |-> FALSE ]) ] :
           t \in wish_users \X wish_products \X BOOLEAN }

\* The remove branch (lines 104-110) with remove_from_wishlist (64-91): one of
\* the rows with removed_timestamp NULL gets a removed_timestamp.
WishRemoveOutcomes ==
    IF \A i \in DOMAIN wishlists : wishlists[i].removed
    THEN { [ type |-> "none", user_id |-> 0, product_id |-> 0, rows |-> wishlists ] }
    ELSE { IF t[2]
           THEN [ type |-> "raised", user_id |-> wishlists[t[1]].user_id,
                  product_id |-> wishlists[t[1]].product_id, rows |-> wishlists ]
           ELSE [ type |-> "wishlist_remove", user_id |-> wishlists[t[1]].user_id,
                  product_id |-> wishlists[t[1]].product_id,
                  rows |-> [ wishlists EXCEPT ![t[1]].removed = TRUE ] ] :
           t \in { i \in DOMAIN wishlists : ~wishlists[i].removed } \X BOOLEAN }

\* Line 96: the remove branch is taken only with a user in the snapshot.
WishEventOutcomes ==
    { [ branch |-> "add", out |-> o ] : o \in WishAddOutcomes }
      \cup (IF wish_users # {}
            THEN { [ branch |-> "remove", out |-> o ] : o \in WishRemoveOutcomes }
            ELSE {})

\* WishlistGenerator.__init__ (lines 8-10): load_active_data on a store with
\* some active users and products and no wishlist row yet.
WishInit ==
    /\ OrchIdle /\ OrderIdle /\ AmountIdle /\ MoreIdle
    /\ wishlists = << >>
    /\ wish_users \in SUBSET WishUsers
    /\ wish_products \in SUBSET WishProducts
    /\ wish_pc = "running"
    /\ wish_last = None

\* One tick (lines 116-118 of run()): generate_event, then send_event if it
\* returned an event.
WishTick ==
    /\ wish_pc = "running"
    /\ \E e \in WishEventOutcomes :
       \E cause \in SendCauses :
          LET sends == e.out.type \in {"wishlist_add", "wishlist_remove"}
          IN  /\ sends \/ cause = "none"
              /\ Len(e.out.rows) <= MaxWishRows
              /\ wishlists' = e.out.rows
              /\ failed_events' =
                    IF sends
                    THEN send_event(failed_events, "wishlists",
                                    send_event_attempts(cause).outcome).failed_events
                    ELSE failed_events
              /\ wish_last' = [ branch     |-> e.branch,
                                type       |-> e.out.type,
                                user_id    |-> e.out.user_id,
                                product_id |-> e.out.product_id,
                                sent       |-> sends ]
    /\ UNCHANGED << wish_users, wish_products, wish_pc, orderVars, amountVars >>
    /\ UNCHANGED moreVars
    /\ UNCHANGED << is_running, pc, orch, cleanups, nonEmpty, existing_users,
                    active_users, categories, active_sessions, last >>

\* load_active_data called again from line 125 reads users and products,
\* which this generator does not write: it returns the snapshot it returned
\* to the constructor.
WishNext == WishTick

WishSpec == WishInit /\ [][WishNext]_allVars

\* The non-removed rows of wishlists for the pair (u, p).
WishRowsOf(rows, u, p) ==
    { i \in DOMAIN rows : rows[i].user_id = u /\ rows[i].product_id = p /\ ~rows[i].removed }

\* C18: after every tick the store holds at most one non-removed wishlist row
\* per (user, product) pair, and an add for a pair that is present and not
\* removed writes no row and emits no event.
C18_NoDuplicateWishlistRow ==
    [][ WishTick =>
          /\ \A u \in WishUsers, p \in WishProducts :
                Cardinality(WishRowsOf(wishlists', u, p)) <= 1
          /\ ( /\ wish_last'.branch = "add"
               /\ WishRowsOf(wishlists, wish_last'.user_id, wish_last'.product_id) # {} )
                => (wishlists' = wishlists /\ ~wish_last'.sent) ]_allVars

\* A pair that was removed has been added again: the store holds a removed
\* and a non-removed row for it, the latter from the last tick.
C18_AddedAgainAfterRemoval ==
    /\ wish_last # None
    /\ wish_last.type = "wishlist_add"
    /\ \E i \in DOMAIN wishlists : /\ wishlists[i].removed
                                   /\ wishlists[i].user_id = wish_last.user_id
                                   /\ wishlists[i].product_id = wish_last.product_id
    /\ WishRowsOf(wishlists, wish_last.user_id, wish_last.product_id) # {}

-----------------------------------------------------------------------------
(* Order creation *)

\* A cart an order can be made from: a non-removed item and both default
\* addresses of its user.
Orderable(c) ==
    /\ NonRemoved(carts[c].items) # << >>
    /\ {"billing", "shipping"} \subseteq carts[c].addresses

\* C30: every order the order generator writes references a converted cart
\* with a non-removed item whose user has a default billing and a default
\* shipping address; a tick that picked a cart without a non-removed item
\* or without one of the addresses writes no order, hands nothing to
\* send_event and does not raise.
C30_OrdersOnlyFromOrderableCarts ==
    [][ OrderTick =>
          /\ \A i \in (DOMAIN orders') \ (DOMAIN orders) :
                /\ orders'[i].cart_id \in DOMAIN carts
                /\ carts[orders'[i].cart_id].status = "converted"
                /\ Orderable(orders'[i].cart_id)
          /\ (order_last'.cart # 0 /\ ~Orderable(order_last'.cart)) =>
                /\ orders' = orders
                /\ order_last'.type = "skip"
                /\ ~order_last'.store_attempted
                /\ ~order_last'.publish_attempted
                /\ failed_events' = failed_events ]_allVars

\* The tick picked a converted cart whose user has no default shipping
\* address and returned without an order.
C30_SkippedCartWithoutShipping ==
    /\ order_last # None
    /\ order_last.type = "skip"
    /\ order_last.cart # 0
    /\ carts[order_last.cart].status = "converted"
    /\ NonRemoved(carts[order_last.cart].items) # << >>
    /\ "shipping" \notin carts[order_last.cart].addresses
    /\ orders = << >>

-----------------------------------------------------------------------------
(* The failed_events table *)

-----------------------------------------------------------------------------
(* CartGenerator: generate_event and run, cart_generator.py *)

\* config.py:83, the statuses update_cart_status draws from.
CartStatusChoices == {"active", "abandoned", "converted"}

\* generate_cart_item draws the quantity with random.randint(1, 5); no
\* branch of the cart generator reads it, and one value stands for the five.
CartQuantities == {1}

\* The default addresses of the user of the one active session.
SessionUserAddresses == {"billing", "shipping"}

\* cart_generator.py:94-110: the UPDATE of the cart's status.
update_cart_status(rows, cart_id, new_status) ==
    [ rows EXCEPT ![cart_id].status = new_status ]

\* active_carts keeping a cart whose status became converted or abandoned.
drop_terminal_cart_never(ws, cart_id, new_status) == ws

\* cart_generator.py:122-123
drop_terminal_cart(ws, cart_id, new_status) ==
    IF new_status \in {"converted", "abandoned"} THEN ws \ {cart_id} ELSE ws

\* cart_generator.py:52-63, for the one active product.
generate_cart_item(quantity) ==
    [ quantity |-> quantity, unit_price |-> 2500, removed |-> FALSE ]

\* What generate_event (lines 112-162) can do: the rows of carts with their
\* items afterwards, active_carts afterwards, whether a store call changed
\* a row (wrote), and the event's type: "raised" when a store call raised,
\* "skip" when generate_event returned None.
\* Lines 120-124: the status update.
CartStatusOutcomes ==
    { IF t[3]
      THEN [ type |-> "raised", cart |-> t[1], carts |-> carts,
             ws |-> active_carts, wrote |-> FALSE ]
      ELSE [ type |-> "cart_update", cart |-> t[1],
             carts |-> update_cart_status(carts, t[1], t[2]),
             ws |-> drop_terminal_cart(active_carts, t[1], t[2]),
             wrote |-> TRUE ] :
      t \in active_carts \X CartStatusChoices \X BOOLEAN }

\* Lines 127-131: one more item.
CartItemAddOutcomes ==
    { IF t[3]
      THEN [ type |-> "raised", cart |-> t[1], carts |-> carts,
             ws |-> active_carts, wrote |-> FALSE ]
      ELSE [ type |-> "item_add", cart |-> t[1],
             carts |-> [ carts EXCEPT ![t[1]].items =
                            Append(@, generate_cart_item(t[2])) ],
             ws |-> active_carts, wrote |-> TRUE ] :
      t \in { c \in active_carts : Len(carts[c].items) < MaxItems }
              \X CartQuantities \X BOOLEAN }

\* Lines 133-149: one of the non-removed items marked as removed; None when
\* the cart has none.
CartItemRemoveOutcomes ==
    UNION { IF NonRemoved(carts[c].items) = << >>
            THEN { [ type |-> "skip", cart |-> c, carts |-> carts,
                     ws |-> active_carts, wrote |-> FALSE ] }
            ELSE { IF t[2]
                   THEN [ type |-> "raised", cart |-> c, carts |-> carts,
                          ws |-> active_carts, wrote |-> FALSE ]
                   ELSE [ type |-> "item_remove", cart |-> c,
                          carts |-> [ carts EXCEPT ![c].items[t[1]].removed = TRUE ],
                          ws |-> active_carts, wrote |-> TRUE ] :
                   t \in { k \in DOMAIN carts[c].items : ~carts[c].items[k].removed }
                           \X BOOLEAN } :
            c \in active_carts }

\* Lines 151-162: a new cart with the item of the one active product;
\* generate_cart_with_items returns (None, None) when active_sessions or
\* active_products is empty (lines 67-69), and then there is no event.
\* fault: the insert into carts, or the insert into cart_items, raises.
CartCreateOutcomes ==
    LET new == Len(carts) + 1
        row == [ status |-> "active", items |-> << >>,
                 addresses |-> SessionUserAddresses ]
    IN  IF ~cart_snapshot.sessions \/ ~cart_snapshot.products
        THEN { [ type |-> "skip", cart |-> 0, carts |-> carts,
                 ws |-> active_carts, wrote |-> FALSE ] }
        ELSE
        { CASE t[2] = "none" ->
                 [ type |-> "cart_create", cart |-> new,
                   carts |-> Append(carts, [ row EXCEPT !.items =
                                               << generate_cart_item(t[1]) >> ]),
                   ws |-> active_carts \cup {new}, wrote |-> TRUE ]
            [] t[2] = "carts" ->
                 [ type |-> "raised", cart |-> new, carts |-> carts,
                   ws |-> active_carts, wrote |-> FALSE ]
            [] OTHER ->
                 [ type |-> "raised", cart |-> new, carts |-> Append(carts, row),
                   ws |-> active_carts, wrote |-> TRUE ] :
          t \in CartQuantities \X {"none", "carts", "cart_items"} }

\* Lines 115 and 150: the update branch needs a cart in active_carts, the
\* creation branch is always open.  At most MaxCarts carts are stored.
CartEventOutcomes ==
    { out \in CartStatusOutcomes \cup CartItemAddOutcomes
                \cup CartItemRemoveOutcomes \cup CartCreateOutcomes :
        Len(out.carts) <= MaxCarts }

\* CartGenerator.__init__ (lines 9-13) with an active session and an active
\* product in the store, beside a ticket and possibly an order of an
\* earlier run.
CartInit ==
    /\ OrchIdle /\ AmountIdle /\ WishIdle /\ TicketIdle /\ LateIdle
    /\ carts = << >>
    /\ orders \in { os \in EarlierOrders : os # << >> => os[1].status = "pending" }
    /\ tickets = EarlierTickets
    /\ ticket_messages = EarlierMessages
    /\ pending_carts = {}
    /\ active_orders = {}
    /\ order_pc = "absent"
    /\ order_last = None
    /\ active_carts = {}
    /\ cart_pc = "running"
    /\ cart_last = None
    /\ cart_snapshot = [ sessions |-> TRUE, products |-> TRUE ]

\* Lines 168-170 of run(): generate_event, then send_event('cart_events')
\* if it returned an event.
CartTick ==
    /\ cart_pc = "running"
    /\ \E out \in CartEventOutcomes :
       \E cause \in SendCauses :
          LET sends == out.type \notin {"skip", "raised"}
              att   == send_event_attempts(cause)
          IN  /\ sends \/ cause = "none"
              /\ carts' = out.carts
              /\ active_carts' = out.ws
              /\ failed_events' =
                    IF sends
                    THEN send_event(failed_events, "cart_events", att.outcome).failed_events
                    ELSE failed_events
              /\ cart_last' = [ type              |-> out.type,
                                cart              |-> out.cart,
                                wrote             |-> out.wrote,
                                in_ws_at_send     |-> sends /\ out.cart \in out.ws,
                                publish_attempted |-> sends /\ att.publish_attempted,
                                cause             |-> cause ]
    /\ UNCHANGED << cart_pc, cart_snapshot, orders, pending_carts, active_orders,
                    order_pc, order_last >>
    /\ UNCHANGED << amountVars, wishVars, ticketVars, lateVars >>
    /\ UNCHANGED << is_running, pc, orch, cleanups, nonEmpty, existing_users,
                    active_users, categories, active_sessions, last >>

CartNext == CartTick

\* The cart generator's ticks, one after another.
CartSpec == CartInit /\ [][CartNext]_allVars

-----------------------------------------------------------------------------
(* Properties of the cart generator *)

\* C25: a cart whose status a tick made converted or abandoned is taken
\* out of active_carts only after its event went through send_event: it is
\* still in active_carts when send_event is called.
C25_CartRemovedAfterSend ==
    [][ CartTick =>
          \A c \in active_carts \ active_carts' :
              /\ cart_last'.in_ws_at_send
              /\ cart_last'.publish_attempted ]_allVars

\* The cart was converted and deleted from active_carts, and send_event
\* raised its simulated network failure before anything was published.
C25_CartGoneAndNothingPublished ==
    /\ cart_last # None
    /\ cart_last.type = "cart_update"
    /\ carts[cart_last.cart].status = "converted"
    /\ cart_last.cart \notin active_carts
    /\ cart_last.cause = "network"
    /\ ~cart_last.publish_attempted

\* C26: once a cart's stored status is converted or abandoned, no tick of
\* the cart generator changes its status or any of its items: the row and
\* its items stay as they are in every later step.
C26_TerminalCartFrozen ==
    [][ \A c \in DOMAIN carts :
            carts[c].status \in {"converted", "abandoned"} =>
                /\ c \in DOMAIN carts'
                /\ carts'[c] = carts[c] ]_allVars

\* A cart was converted with an item marked as removed, and a later tick of
\* the generator (a creation whose insert raised) has run since.
C26_TickAfterConversion ==
    /\ cart_last # None
    /\ \E c \in DOMAIN carts :
          /\ carts[c].status = "converted"
          /\ NonRemoved(carts[c].items) # carts[c].items
          /\ c \notin active_carts
          /\ cart_last.cart # c

\* C23: a tick in which a store call raised, in generate_event or in the
\* insert_record of send_event, leaves active_carts as it was before the
\* tick.
C23_StoreFailureKeepsWorkingSet ==
    [][ (CartTick /\ (cart_last'.type = "raised" \/ cart_last'.cause = "insert"))
          => active_carts' = active_carts ]_allVars

\* The status update made the cart terminal and deleted it from
\* active_carts; the insert of its event then raised.
C23_CartGoneAfterFailedInsert ==
    /\ cart_last # None
    /\ cart_last.type = "cart_update"
    /\ cart_last.cause = "insert"
    /\ carts[cart_last.cart].status \in {"converted", "abandoned"}
    /\ cart_last.cart \notin active_carts

\* C24: a tick that changed a row of the store hands an event for the
\* change to send_event, also when a later store call of the tick raises.
C24_EveryWriteHandsAnEvent ==
    [][ (CartTick /\ cart_last'.wrote) =>
            cart_last'.type \in {"cart_create", "cart_update",
                                 "item_add", "item_remove"} ]_allVars

\* The cart row was inserted, the insert of its item raised: the cart is in
\* the store without items, and generate_event returned no event.
C24_CartStoredWithoutEvent ==
    /\ cart_last # None
    /\ cart_last.type = "raised"
    /\ cart_last.wrote
    /\ cart_last.cart \in DOMAIN carts
    /\ carts[cart_last.cart].items = << >>
    /\ ~cart_last.publish_attempted

-----------------------------------------------------------------------------
(* SupportTicketGenerator: generate_event and run,
   support_ticket_generator.py; the Gateway calls of BaseGenerator *)

MaxTickets == 2

\* The tables the cart, order and ticket generators write, as one record.
StoreOf(cs, os, ts, ms) ==
    [ carts |-> cs, orders |-> os, support_tickets |-> ts, ticket_messages |-> ms ]

\* event_generator.py:51-70: INSERT INTO {table}.
insert_record(store, table, data) ==
    [ store EXCEPT ![table] = Append(@, data) ]

\* update_record running its UPDATE on the table orders.
update_record_on_orders(store, table, record_id, data) ==
    LET rows == store["orders"]
    IN  [ store EXCEPT !["orders"] =
            [ i \in DOMAIN rows |->
                IF i = record_id
                THEN [ f \in (DOMAIN rows[i]) \cup (DOMAIN data) |->
                         IF f \in DOMAIN data THEN data[f] ELSE rows[i][f] ]
                ELSE rows[i] ] ]

\* event_generator.py:72-89: UPDATE {table} SET the columns of data WHERE
\* {id_column} = record_id; no row with that id, no change.
update_record(store, table, record_id, data) ==
    LET rows == store[table]
    IN  [ store EXCEPT ![table] =
            [ i \in DOMAIN rows |->
                IF i = record_id
                THEN [ f \in (DOMAIN rows[i]) \cup (DOMAIN data) |->
                         IF f \in DOMAIN data THEN data[f] ELSE rows[i][f] ]
                ELSE rows[i] ] ]

\* config.py:115, the keys of satisfaction_score_distribution.
SatisfactionScores == {1, 2, 3, 4, 5}

\* The columns of the rows in active_tickets (the query of lines 28-32).
TicketSnapshotColumns == {"ticket_id", "user_id", "status"}

\* The ticket's next status being resolved whatever it is now.
ticket_status_flow_skipping ==
    [ st \in {"open", "in_progress"} |-> "resolved" ]

\* support_ticket_generator.py:119-122
ticket_status_flow ==
    [ st \in {"open", "in_progress"} |->
        IF st = "open" THEN "in_progress" ELSE "resolved" ]

\* update_data with a satisfaction score whatever the new status is.
ticket_update_data_always_scored(new_status, score) ==
    [ status |-> new_status, resolved_at |-> (new_status = "resolved"),
      satisfaction_score |-> score ]

\* Lines 126-136: the columns update_ticket sets.  resolved_at is TRUE for a
\* time and FALSE for NULL; a satisfaction_score of 0 is NULL.
ticket_update_data(new_status, score) ==
    IF new_status = "resolved"
    THEN [ status |-> new_status, resolved_at |-> TRUE, satisfaction_score |-> score ]
    ELSE [ status |-> new_status, resolved_at |-> FALSE ]

\* Lines 43-59 and 62-68 of generate_ticket.
generate_ticket(order_id) ==
    [ order_id |-> order_id, status |-> "open", resolved_at |-> FALSE,
      satisfaction_score |-> 0 ]

\* Lines 28-32: the tickets neither resolved nor closed, with the status
\* they have when the query runs.
load_active_tickets(ts) ==
    { [ ticket_id |-> i, status |-> ts[i].status ] :
        i \in { j \in DOMAIN ts : ts[j].status \notin {"resolved", "closed"} } }

\* Lines 22-26: the orders of the last thirty days, here all of them.
load_recent_orders(os) == DOMAIN os

\* What generate_event (lines 152-177) can do, as the store afterwards, the
\* event's type ("raised" when the call raised, "skip" when it returned
\* None) and whether a row was written.
\* Lines 155-166 with update_ticket (113-150): the status written is the
\* successor of the status in the snapshot row.  The message is built with
\* ticket_data['issue_type'] (line 145), after update_record (line 138).
TicketUpdateOutcomes ==
    LET store == StoreOf(carts, orders, tickets, ticket_messages)
    IN  { IF t[1].status \notin DOMAIN ticket_status_flow
          THEN [ type |-> "skip", ticket |-> t[1].ticket_id, store |-> store,
                 wrote |-> FALSE ]
          ELSE IF t[3]
          THEN [ type |-> "raised", ticket |-> t[1].ticket_id, store |-> store,
                 wrote |-> FALSE ]
          ELSE LET written ==
                     update_record(store, "support_tickets", t[1].ticket_id,
                        ticket_update_data(ticket_status_flow[t[1].status], t[2]))
               IN  IF "issue_type" \in TicketSnapshotColumns
                   THEN [ type |-> "ticket_update", ticket |-> t[1].ticket_id,
                          store |-> insert_record(written, "ticket_messages",
                                      [ ticket_id |-> t[1].ticket_id,
                                        sender_type |-> "support_agent" ]),
                          wrote |-> TRUE ]
                   ELSE [ type |-> "raised", ticket |-> t[1].ticket_id,
                          store |-> written, wrote |-> TRUE ] :
          t \in active_tickets \X SatisfactionScores \X BOOLEAN }

\* Lines 167-177 with generate_ticket (34-70).  fault: the insert into
\* support_tickets, or the one into ticket_messages, raises.
TicketCreateOutcomes ==
    LET store  == StoreOf(carts, orders, tickets, ticket_messages)
        new    == Len(tickets) + 1
    IN  IF recent_orders = {}
        THEN { [ type |-> "skip", ticket |-> 0, store |-> store, wrote |-> FALSE ] }
        ELSE { LET with_ticket == insert_record(store, "support_tickets",
                                                generate_ticket(t[1]))
               IN  CASE t[2] = "none" ->
                          [ type |-> "ticket_create", ticket |-> new,
                            store |-> insert_record(with_ticket, "ticket_messages",
                                        [ ticket_id |-> new,
                                          sender_type |-> "customer" ]),
                            wrote |-> TRUE ]
                     [] t[2] = "support_tickets" ->
                          [ type |-> "raised", ticket |-> new, store |-> store,
                            wrote |-> FALSE ]
                     [] OTHER ->
                          [ type |-> "raised", ticket |-> new, store |-> with_ticket,
                            wrote |-> TRUE ] :
               t \in recent_orders \X {"none", "support_tickets", "ticket_messages"} }

\* Lines 155 and 167.  At most MaxTickets tickets are stored.
TicketEventOutcomes ==
    { out \in TicketUpdateOutcomes \cup TicketCreateOutcomes :
        Len(out.store.support_tickets) <= MaxTickets }

\* SupportTicketGenerator.__init__ (lines 9-12) on a store with a cart and
\* possibly an order of an earlier run, and no ticket yet.
TicketInit ==
    /\ OrchIdle /\ AmountIdle /\ WishIdle /\ CartIdle /\ LateIdle
    /\ carts \in [ Carts -> { r \in CartRows : r.status = "active" } ]
    /\ orders \in { os \in EarlierOrders : os # << >> => os[1].status = "pending" }
    /\ pending_carts = {}
    /\ active_orders = {}
    /\ order_pc = "absent"
    /\ order_last = None
    /\ tickets = << >>
    /\ ticket_messages = << >>
    /\ active_tickets = load_active_tickets(tickets)
    /\ recent_orders = load_recent_orders(orders)
    /\ ticket_pc = "running"
    /\ ticket_last = None

\* Lines 183-185 of run(): generate_event, then
\* send_event('support_tickets') if it returned an event.
TicketTick ==
    /\ ticket_pc = "running"
    /\ \E out \in TicketEventOutcomes :
       \E cause \in SendCauses :
          LET sends == out.type \in {"ticket_create", "ticket_update"}
              att   == send_event_attempts(cause)
          IN  /\ sends \/ cause = "none"
              /\ carts' = out.store.carts
              /\ orders' = out.store.orders
              /\ tickets' = out.store.support_tickets
              /\ ticket_messages' = out.store.ticket_messages
              /\ failed_events' =
                    IF sends
                    THEN send_event(failed_events, "support_tickets",
                                    att.outcome).failed_events
                    ELSE failed_events
              /\ ticket_last' = [ type              |-> out.type,
                                  ticket            |-> out.ticket,
                                  wrote             |-> out.wrote,
                                  publish_attempted |-> sends /\ att.publish_attempted,
                                  cause             |-> cause ]
    /\ UNCHANGED << active_tickets, recent_orders, ticket_pc >>
    /\ UNCHANGED << pending_carts, active_orders, order_pc, order_last >>
    /\ UNCHANGED << amountVars, wishVars, cartVars, lateVars >>
    /\ UNCHANGED << is_running, pc, orch, cleanups, nonEmpty, existing_users,
                    active_users, categories, active_sessions, last >>

\* load_active_data (lines 14-32), called by the constructor and from
\* line 192.
TicketRefresh ==
    /\ ticket_pc = "running"
    /\ active_tickets' = load_active_tickets(tickets)
    /\ recent_orders' = load_recent_orders(orders)
    /\ UNCHANGED << tickets, ticket_messages, ticket_pc, ticket_last >>
    /\ UNCHANGED << orderVars, amountVars, wishVars, cartVars, lateVars, vars >>

TicketNext ==
    \/ TicketTick
    \/ TicketRefresh

\* The ticket generator's ticks and snapshot refreshes, in any order.
TicketSpec == TicketInit /\ [][TicketNext]_allVars

-----------------------------------------------------------------------------
(* Properties of the support ticket generator *)

\* C27: over the ticks and snapshot refreshes of the ticket generator a
\* ticket's stored status stays as it is or moves one step along open,
\* in_progress, resolved: never backward, never from open to resolved, and
\* never away from resolved.
C27_TicketStatusOneStepForward ==
    [][ \A i \in DOMAIN tickets :
            /\ i \in DOMAIN tickets'
            /\ \/ tickets'[i].status = tickets[i].status
               \/ << tickets[i].status, tickets'[i].status >> \in
                     { << "open", "in_progress" >>, << "in_progress", "resolved" >> }
      ]_allVars

\* A ticket is resolved in the store while the snapshot still holds it as
\* in_progress, and the last tick updated it from that snapshot row.
C27_ResolvedTicketUpdatedAgain ==
    /\ ticket_last # None
    /\ ticket_last.wrote
    /\ ticket_last.ticket \in DOMAIN tickets
    /\ tickets[ticket_last.ticket].status = "resolved"
    /\ [ ticket_id |-> ticket_last.ticket, status |-> "in_progress" ] \in active_tickets
    /\ \E i \in DOMAIN tickets : tickets[i].status = "open"

\* C28: in every reachable state a ticket whose status is resolved has a
\* satisfaction_score in 1..5 and a resolved_at time, and a ticket with any
\* other status has neither.
C28_ScoreAndTimeIffResolved ==
    \A i \in DOMAIN tickets :
        IF tickets[i].status = "resolved"
        THEN tickets[i].satisfaction_score \in 1..5 /\ tickets[i].resolved_at
        ELSE tickets[i].satisfaction_score = 0 /\ ~tickets[i].resolved_at

\* One ticket resolved with the lowest score beside one in progress.
C28_ResolvedBesideInProgress ==
    \E i, j \in DOMAIN tickets :
        /\ tickets[i].status = "resolved"
        /\ tickets[i].satisfaction_score = 1
        /\ tickets[j].status = "in_progress"

-----------------------------------------------------------------------------
(* The cart, order and ticket generators, each on a store that holds rows
   of the other two *)

GeneratorsInit ==
    \/ CartInit
    \/ OrderInit
    \/ TicketInit

GeneratorsNext ==
    \/ CartNext
    \/ OrderNext
    \/ TicketNext

GeneratorsSpec == GeneratorsInit /\ [][GeneratorsNext]_allVars

\* C21: carts and their items are written only by the cart generator,
\* orders only by the order generator, tickets and their messages only by
\* the ticket generator: every step of a generator, tick or refresh, leaves
\* the rows of the other two as they are.
C21_OnlyOwnerWrites ==
    [][ /\ cart_pc = "running" =>
             orders' = orders /\ tickets' = tickets
                              /\ ticket_messages' = ticket_messages
        /\ order_pc = "running" =>
             carts' = carts /\ tickets' = tickets
                            /\ ticket_messages' = ticket_messages
        /\ ticket_pc = "running" =>
             carts' = carts /\ orders' = orders
        /\ "running" \in {cart_pc, order_pc, ticket_pc}
      ]_allVars

\* The ticket generator has updated a ticket of an order while a cart and
\* that order are in the store.
C21_TicketWrittenBesideOrder ==
    /\ ticket_last # None
    /\ ticket_last.wrote
    /\ ticket_last.ticket \in DOMAIN tickets
    /\ tickets[ticket_last.ticket].status = "in_progress"
    /\ tickets[ticket_last.ticket].order_id \in DOMAIN orders
    /\ carts # << >>

\* C29: no step of the order generator sets an order's status to cancelled
\* and no step of the ticket generator sets a ticket's status to closed: a
\* row with such a status after a step had it before the step.
C29_CancelledAndClosedNeverWritten ==
    [][ /\ \A i \in DOMAIN orders' :
              orders'[i].status = "cancelled" =>
                  i \in DOMAIN orders /\ orders[i].status = "cancelled"
        /\ \A i \in DOMAIN tickets' :
              tickets'[i].status = "closed" =>
                  i \in DOMAIN tickets /\ tickets[i].status = "closed" ]_allVars

\* An order created in this run went all the way to delivered, beside an
\* order that was cancelled before the generator started.
C29_DeliveredBesideCancelled ==
    /\ order_last # None
    /\ order_last.type = "order_update"
    /\ \E i, j \in DOMAIN orders :
          /\ orders[i].status = "cancelled"
          /\ orders[j].cart_id \in DOMAIN carts
          /\ orders[j].status = "delivered"

\* C39: once a ticket is resolved in the store, no later step of the ticket
\* generator changes its satisfaction_score or its resolved_at.
C39_ResolvedTicketKeepsScore ==
    [][ \A i \in DOMAIN tickets :
            tickets[i].status = "resolved" =>
                /\ i \in DOMAIN tickets'
                /\ tickets'[i].satisfaction_score = tickets[i].satisfaction_score
                /\ tickets'[i].resolved_at = tickets[i].resolved_at ]_allVars

\* The ticket was resolved with score 5, the snapshot still holds it as
\* in_progress, and the tick that followed wrote score 1 over it.
C39_ScoreOverwritten ==
    /\ ticket_last # None
    /\ ticket_last.wrote
    /\ ticket_last.ticket \in DOMAIN tickets
    /\ tickets[ticket_last.ticket].status = "resolved"
    /\ tickets[ticket_last.ticket].satisfaction_score = 1
    /\ [ ticket_id |-> ticket_last.ticket, status |-> "in_progress" ] \in active_tickets
    /\ Len(tickets) = 1

-----------------------------------------------------------------------------
(* Events and working set of the order generator *)

\* C38: the order generator never emits two order_update events with the
\* same order_id and the same new_status; in particular not one right
\* after the other.
C38_NoRepeatedOrderUpdate ==
    [][ (/\ OrderTick
         /\ order_last # None
         /\ order_last.type = "order_update"
         /\ order_last'.type = "order_update")
          => << order_last'.order, order_last'.new_status >>
               # << order_last.order, order_last.new_status >> ]_allVars

\* C33: an order created by a tick is in active_orders right after the
\* tick, and the converted cart it was made from is no longer in
\* pending_carts.
C33_CreatedOrderInWorkingSet ==
    [][ (OrderTick /\ order_last'.type = "order_create") =>
          /\ \E o \in active_orders' : o.order_id = order_last'.order
          /\ order_last'.cart \notin pending_carts' ]_allVars

\* An order was created and handed to send_event; active_orders is empty
\* and the cart is still a candidate.
C33_CreatedOrderNotTracked ==
    /\ order_last # None
    /\ order_last.type = "order_create"
    /\ order_last.order \in DOMAIN orders
    /\ active_orders = {}
    /\ order_last.cart \in pending_carts
    /\ order_last.cause = "none"

-----------------------------------------------------------------------------
(* Order items *)

\* The sum of the discount_amount of the order items.
RECURSIVE LineDiscounts(_)
LineDiscounts(items) ==
    IF items = << >> THEN 0
    ELSE Head(items).discount_amount + LineDiscounts(Tail(items))

\* C31: each order item's discount_amount is the order's discount_amount
\* times quantity * unit_price / subtotal, to the nearest cent, so that the
\* items' discounts add up to the order's discount_amount within half a
\* cent per item; every item's discount is 0 when the subtotal is 0.
C31_LineDiscountByShareOfSubtotal ==
    order # None =>
        /\ \A k \in DOMAIN order.items :
              LET line  == order.items[k]
                  share == order.discount_amount * line.quantity * line.unit_price
                  diff  == line.discount_amount * OrderSubtotal - share
              IN  /\ 2 * diff <= OrderSubtotal
                  /\ 2 * diff >= 0 - OrderSubtotal
                  /\ OrderSubtotal = 0 => line.discount_amount = 0
        /\ 2 * (LineDiscounts(order.items) - order.discount_amount) <= Len(order.items)
        /\ 2 * (order.discount_amount - LineDiscounts(order.items)) <= Len(order.items)

\* One item of 250.00: the order's discount is 25.00 and its total 245.00,
\* and the item's discount is 25.51.
C31_LineDiscountAboveOrderDiscount ==
    /\ order # None
    /\ Len(order.items) = 1
    /\ OrderSubtotal = 25000
    /\ order.discount_amount = 2500
    /\ order.total_amount = 24500
    /\ order.items[1].discount_amount = 2551

-----------------------------------------------------------------------------
(* Threads and connections *)

\* The threads that may be inside a call on generator g's connection or
\* producer: g's own task while it polls its dependencies (main.py:71) or
\* is in generator.run() and the finally clause after it (lines 94-99), and
\* the main thread while it is in DataGeneratorOrchestrator.cleanup
\* (lines 132-134).
ConnectionUsers(g) ==
    (IF pc[g] \in {"waiting", "running"} THEN {g} ELSE {})
      \cup (IF orch = "cleanup" THEN {"main"} ELSE {})

\* C40: at no time do two threads use the connection and producer of one
\* generator: the dependency checks, the ticks and the task's own cleanup
\* run on the generator's task, and the orchestrator's cleanup runs on the
\* main thread only when that task has returned.
C40_OneThreadPerConnection ==
    \A g \in Generators : Cardinality(ConnectionUsers(g)) <= 1

\* The main thread is in cleanup() after a shutdown signal; one task had
\* crashed out of run() and cleaned up itself, another had stopped while
\* polling.
C40_MainThreadCleansUp ==
    /\ orch = "cleanup"
    /\ \E g \in Generators : pc[g] = "crashed" /\ cleanups[g] = 1
    /\ \E g \in Generators : pc[g] = "stopped" /\ cleanups[g] = 0

-----------------------------------------------------------------------------
(* ProductCategoryGenerator (product_category_generator.py) *)

max_depth == 3
RootLimit == 5
MaxStoredCategories == 4
MaxCategories == 6

\* get_category_depth (lines 24-31): the number of parent links from the
\* category up to a root; an unknown category has depth 0.
RECURSIVE get_category_depth(_, _)
get_category_depth(cats, category_id) ==
    IF category_id \notin DOMAIN cats \/ cats[category_id] = 0
    THEN 0
    ELSE 1 + get_category_depth(cats, cats[category_id])

Roots(cats) == { i \in DOMAIN cats : cats[i] = 0 }

\* Line 61 without its test: a root is created whatever is cached.
root_allowed_always(cats) == TRUE

\* Line 61: a root is created while fewer than five categories, roots or
\* not, are cached.
root_allowed(cats) == Len(cats) < RootLimit

\* Lines 68-71.
potential_parents(cats) ==
    { cid \in DOMAIN cats : get_category_depth(cats, cid) < max_depth - 1 }

\* generate_category (lines 33-54).  With a parent_id, line 44 reads
\* self.fake, an attribute that neither this class nor BaseGenerator sets:
\* the call raises AttributeError before a row is built.
generate_category(parent_id) ==
    [ raised |-> parent_id # 0, parent_category_id |-> parent_id ]

\* generate_event (lines 56-78).  The first branch is taken when nothing is
\* cached and otherwise by chance; insert_record may raise, and then the
\* cache is not touched either.
CategoryEventOutcomes(cats) ==
    ( IF root_allowed(cats)
      THEN IF Len(cats) < MaxCategories
           THEN { [ type |-> "raised", cats |-> cats, parent |-> 0 ],
                  [ type |-> "category_create",
                    cats |-> Append(cats, generate_category(0).parent_category_id),
                    parent |-> 0 ] }
           ELSE {}
      ELSE { [ type |-> "skip", cats |-> cats, parent |-> 0 ] } )
    \cup
    ( IF cats = << >> THEN {}
      ELSE IF potential_parents(cats) = {}
           THEN { [ type |-> "skip", cats |-> cats, parent |-> 0 ] }
           ELSE UNION { LET category == generate_category(parent_id)
                        IN  IF category.raised \/ Len(cats) >= MaxCategories
                            THEN { [ type |-> "raised", cats |-> cats,
                                     parent |-> parent_id ] }
                            ELSE { [ type |-> "raised", cats |-> cats,
                                     parent |-> parent_id ],
                                   [ type |-> "category_create",
                                     cats |-> Append(cats, category.parent_category_id),
                                     parent |-> parent_id ] } :
                        parent_id \in potential_parents(cats) } )

\* The forests a store holds that was filled under the rules of lines
\* 56-78: every parent is an earlier row, no depth reaches max_depth, and
\* there are at most RootLimit roots.
StoredForests ==
    UNION { { cats \in [ 1..n -> 0..(MaxStoredCategories - 1) ] :
                /\ \A i \in 1..n : cats[i] < i
                /\ \A i \in 1..n : get_category_depth(cats, i) < max_depth
                /\ Cardinality(Roots(cats)) <= RootLimit } :
            n \in 0..MaxStoredCategories }

\* ProductCategoryGenerator.__init__ (lines 9-11): load_categories caches
\* every row of product_categories.
CategoryInit ==
    /\ OrchIdle /\ OrderIdle /\ AmountIdle /\ WishIdle
    /\ CartIdle /\ TicketIdle /\ tickets = << >> /\ ticket_messages = << >>
    /\ ConsumerIdle /\ SendIdle /\ GateIdle /\ UserIdle
    /\ cat_parents \in StoredForests
    /\ cat_pc = "running"
    /\ cat_last = None

\* Lines 83-85 of run(): generate_event, then send_event if it returned an
\* event.
CategoryTick ==
    /\ cat_pc = "running"
    /\ \E out \in CategoryEventOutcomes(cat_parents) :
       \E cause \in SendCauses :
          LET sends == out.type = "category_create"
              att   == send_event_attempts(cause)
          IN  /\ sends \/ cause = "none"
              /\ cat_parents' = out.cats
              /\ failed_events' =
                    IF sends
                    THEN send_event(failed_events, "product_categories",
                                    att.outcome).failed_events
                    ELSE failed_events
              /\ cat_last' = [ type              |-> out.type,
                               parent            |-> out.parent,
                               parent_depth      |-> get_category_depth(cat_parents, out.parent),
                               publish_attempted |-> sends /\ att.publish_attempted,
                               cause             |-> cause ]
    /\ UNCHANGED << cat_pc, orderVars, amountVars, wishVars, cartVars, ticketVars,
                    consumerVars, sendVars, gateVars, userVars >>
    /\ UNCHANGED << is_running, pc, orch, cleanups, nonEmpty, existing_users,
                    active_users, categories, active_sessions, last >>

CategoryNext == CategoryTick

\* The category generator's ticks, one after another.
CategorySpec == CategoryInit /\ [][CategoryNext]_allVars

-----------------------------------------------------------------------------
(* The downstream consumers (run_pipline.py, pipeline/) *)

MaxMessages == 2

\* run_pipline.py:27-33.
topics == {"users", "user_demographics", "sessions", "products", "orders"}

\* event_processor.py:27.
required_fields == {"email", "first_name", "last_name"}

MessageIds == {1, 2}

\* A message's value: its id and which of the required fields it carries.
Messages == [ id : MessageIds, fields : SUBSET required_fields,
              processed_at : {FALSE} ]

\* The static methods event_processor.py defines, and those the dict of
\* lines 11-17 names.
ProcessorsDefined == {"_process_user_event"}
ProcessorsNamed ==
    [ users             |-> "_process_user_event",
      user_demographics |-> "_process_demographic_event",
      sessions          |-> "_process_session_event",
      products          |-> "_process_product_event",
      orders            |-> "_process_order_event" ]

\* _process_user_event (lines 24-35).
_process_user_event(data) ==
    IF required_fields \subseteq data.fields
    THEN [ raised |-> FALSE, error |-> "none",
           data |-> [ data EXCEPT !.processed_at = TRUE ] ]
    ELSE [ raised |-> TRUE, error |-> "ValueError", data |-> data ]

\* process_event (lines 9-22).  Building the dict evaluates every attribute
\* it names; one that the class does not define raises AttributeError,
\* whatever the event type.
process_event(event_type, data) ==
    IF \E t \in DOMAIN ProcessorsNamed : ProcessorsNamed[t] \notin ProcessorsDefined
    THEN [ raised |-> TRUE, error |-> "AttributeError", data |-> data ]
    ELSE IF event_type = "users"
         THEN _process_user_event(data)
         ELSE [ raised |-> FALSE, error |-> "none", data |-> data ]

\* The message lacks a field its topic requires.
LacksRequiredField(topic, data) ==
    topic = "users" /\ ~(required_fields \subseteq data.fields)

\* db_writer.py:26-47: INSERT ... ON CONFLICT (id) DO UPDATE.
write_event(rows, data) ==
    IF \E k \in DOMAIN rows : rows[k].id = data.id
    THEN [ k \in DOMAIN rows |-> IF rows[k].id = data.id THEN data ELSE rows[k] ]
    ELSE Append(rows, data)

\* run_consumer (run_pipline.py:11-21) for one of the topics, with the
\* messages the topic holds.
ConsumerInit ==
    /\ OrchIdle /\ OrderIdle /\ AmountIdle /\ WishIdle
    /\ CartIdle /\ TicketIdle /\ tickets = << >> /\ ticket_messages = << >>
    /\ CategoryIdle /\ SendIdle /\ GateIdle /\ UserIdle
    /\ consumer_topic \in topics
    /\ topic_messages \in UNION { [ 1..n -> Messages ] : n \in 0..MaxMessages }
    /\ consumer_offset = 0
    /\ mirror = << >>
    /\ consumer_log = << >>
    /\ failure_count = 0
    /\ consumer_last = None

\* One turn of the loop of start_consuming (base_consumer.py:30-37) with
\* process_message (run_pipline.py:14-18): an exception of process_event or
\* of write_event is logged and the loop goes on with the next message.
\* The offset is committed by the client (enable_auto_commit).
Consume ==
    /\ consumer_offset < Len(topic_messages)
    /\ LET data      == topic_messages[consumer_offset + 1]
           processed == process_event(consumer_topic, data)
       IN  \E writeFails \in BOOLEAN :
              LET raised == processed.raised \/ writeFails
                  error  == IF processed.raised THEN processed.error
                            ELSE "write_event"
              IN  /\ processed.raised => ~writeFails
                  /\ mirror' = IF raised THEN mirror
                               ELSE write_event(mirror, processed.data)
                  /\ consumer_log' = IF raised THEN Append(consumer_log, error)
                                     ELSE consumer_log
                  /\ consumer_last' =
                        [ offset  |-> consumer_offset + 1,
                          lacking |-> LacksRequiredField(consumer_topic, data),
                          raised  |-> raised,
                          written |-> ~raised ]
    /\ consumer_offset' = consumer_offset + 1
    /\ UNCHANGED << consumer_topic, topic_messages, failure_count >>
    /\ UNCHANGED << vars, orderVars, amountVars, wishVars, cartVars, ticketVars,
                    categoryVars, sendVars, gateVars, userVars >>

ConsumerNext == Consume

ConsumerSpec == ConsumerInit /\ [][ConsumerNext]_allVars

\* The messages taken so far that lacked a required field.
RejectedSoFar ==
    { k \in 1..consumer_offset : LacksRequiredField(consumer_topic, topic_messages[k]) }

\* C34: a message that lacks a required field is not written to the
\* mirror, is taken once only, the consumer goes on to the next message,
\* and the failure count covers every message rejected so far.
C34_RejectedMessageCounted ==
    (consumer_last # None /\ consumer_last.lacking) =>
        /\ ~consumer_last.written
        /\ \A k \in DOMAIN mirror : required_fields \subseteq mirror[k].fields
        /\ consumer_offset = consumer_last.offset
        /\ (consumer_offset < Len(topic_messages) => ENABLED Consume)
        /\ failure_count >= Cardinality(RejectedSoFar)

\* A users message without an email was taken: it is in no row of the
\* mirror and the exception was logged, and no count has moved.
C34_RejectedAndOnlyLogged ==
    /\ consumer_last # None
    /\ consumer_last.lacking
    /\ "email" \notin topic_messages[consumer_last.offset].fields
    /\ mirror = << >>
    /\ Len(consumer_log) = consumer_offset
    /\ failure_count = 0

-----------------------------------------------------------------------------
(* send_event and the event it is handed (event_generator.py:95-131,       *)
(* 158-174), followed on the session generator (session_generator.py)      *)

MaxInvalid == 2

\* Field values: a string with n "INVALID_" prefixes, an int, or None.
StrValue(n) == [ type |-> "str", n |-> n ]
IntValue(n) == [ type |-> "int", n |-> n ]
NoneValue   == [ type |-> "none", n |-> 0 ]

\* generate_session (lines 64-85), with the fields that tell the cases of
\* lines 112-131 of event_generator.py apart: utm_source is None for a
\* direct visit.
generate_session(direct) ==
    [ session_id    |-> StrValue(0),
      user_id       |-> StrValue(0),
      timestamp_end |-> NoneValue,
      utm_source    |-> IF direct THEN NoneValue ELSE StrValue(0),
      created_at    |-> StrValue(0) ]

\* update_session (lines 87-102) writes timestamp_end into the dict it is
\* given.
update_session(session) == [ session EXCEPT !.timestamp_end = StrValue(0) ]

\* get_nullable_fields (event_generator.py:112-118).
get_nullable_fields(data) == DOMAIN data \ {"created_at", "user_id"}

\* generate_invalid_but_typed_data (lines 120-131).
generate_invalid_but_typed_data(current_value) ==
    CASE current_value.type = "str" -> StrValue(current_value.n + 1)
      [] current_value.type = "int" -> IntValue(0 - 1)
      [] OTHER -> current_value

\* What the two draws of lines 97-103 decide: nothing, a field to nullify,
\* or a field to replace.
DataIssues(data) ==
    { [ kind |-> "none", field |-> "none" ] }
    \cup { [ kind |-> "nullify", field |-> f ] : f \in get_nullable_fields(data) }
    \cup { [ kind |-> "invalid", field |-> f ] :
              f \in { g \in DOMAIN data :
                         data[g].type = "str" => data[g].n < MaxInvalid } }

\* introduce_data_quality_issues (lines 95-110): the writes go into the
\* dict that was passed, which is also what is returned.
introduce_data_quality_issues(data, issue) ==
    CASE issue.kind = "nullify" -> [ data EXCEPT ![issue.field] = NoneValue ]
      [] issue.kind = "invalid" ->
            [ data EXCEPT ![issue.field] = generate_invalid_but_typed_data(@) ]
      [] OTHER -> data

\* SessionGenerator.generate_event (lines 104-120): the dict it returns and
\* whether active_sessions still refers to it.  The model follows one live
\* session.
SessionEventOutcomes ==
    IF session_data = None
    THEN { [ branch |-> "start", handed |-> generate_session(direct), cached |-> TRUE ] :
              direct \in BOOLEAN }
    ELSE { [ branch |-> "update", handed |-> session_data, cached |-> TRUE ],
           [ branch |-> "end", handed |-> update_session(session_data),
             cached |-> FALSE ] }

\* SessionGenerator.__init__ with an active user to draw user_id from.
SendInit ==
    /\ OrchIdle /\ OrderIdle /\ AmountIdle /\ WishIdle
    /\ CartIdle /\ TicketIdle /\ tickets = << >> /\ ticket_messages = << >>
    /\ CategoryIdle /\ ConsumerIdle /\ GateIdle /\ UserIdle
    /\ session_data = None
    /\ send_last = None

\* Lines 125-126 of SessionGenerator.run: generate_event, then
\* send_event('sessions', event).  send_event raises the simulated network
\* failure before line 164, and otherwise passes the dict through
\* introduce_data_quality_issues before the insert and the publish.
SessionSendTick ==
    \E out \in SessionEventOutcomes :
    \E cause \in SendCauses :
    \E issue \in DataIssues(out.handed) :
       LET att   == send_event_attempts(cause)
           after == IF cause = "network" THEN out.handed
                    ELSE introduce_data_quality_issues(out.handed, issue)
       IN  /\ cause = "network" => issue.kind = "none"
           /\ session_data' = IF out.cached THEN after ELSE None
           /\ failed_events' =
                 send_event(failed_events, "sessions", att.outcome).failed_events
           /\ send_last' = [ branch |-> out.branch,
                             before |-> out.handed,
                             after  |-> after,
                             cached |-> out.cached,
                             issue  |-> issue,
                             cause  |-> cause ]
           /\ UNCHANGED << is_running, pc, orch, cleanups, nonEmpty, existing_users,
                           active_users, categories, active_sessions, last >>
           /\ UNCHANGED << orderVars, amountVars, wishVars, cartVars, ticketVars,
                           categoryVars, consumerVars, gateVars, userVars >>

SendNext == SessionSendTick

SendSpec == SendInit /\ [][SendNext]_allVars

\* C35: after send_event has returned, the event it was handed has the
\* field values it had before the call, and so has the cached record of the
\* live session when the event is that record.
C35_SendEventLeavesEventAlone ==
    send_last # None =>
        /\ send_last.after = send_last.before
        /\ send_last.cached => session_data = send_last.before

\* send_event was handed the cached record of a live session and put an
\* "INVALID_" prefix on its session_id: the record in active_sessions now
\* carries it.
C35_CachedSessionRewritten ==
    /\ send_last # None
    /\ send_last.branch = "update"
    /\ send_last.cached
    /\ send_last.before.session_id = StrValue(0)
    /\ session_data # None
    /\ session_data.session_id = StrValue(1)

-----------------------------------------------------------------------------
(* The cart generator behind its dependency check (main.py:81-99,          *)
(* cart_generator.py:9-38)                                                 *)

\* The relations check_dependencies('cart') counts rows of.
GateRelations == { CheckedRelation(d) : d \in dependencies["cart"] }

\* DataGeneratorOrchestrator.__init__ (main.py:31-41) has constructed the
\* cart generator, whose constructor read its two snapshots from the store
\* as it was then (cart_generator.py:12-13), and run_generator('cart') has
\* entered its polling loop.
CartGateInit ==
    /\ is_running = TRUE
    /\ pc = [ g \in Generators |-> "unsubmitted" ]
    /\ orch = "run"
    /\ cleanups = [ g \in Generators |-> 0 ]
    /\ nonEmpty \in SUBSET GateRelations
    /\ failed_events = << >>
    /\ existing_users = FALSE
    /\ active_users = FALSE
    /\ categories = FALSE
    /\ active_sessions = 0
    /\ last = NoTick
    /\ OrderIdle /\ AmountIdle /\ WishIdle
    /\ TicketIdle /\ tickets = << >> /\ ticket_messages = << >>
    /\ CategoryIdle /\ ConsumerIdle /\ SendIdle /\ UserIdle
    /\ upstream \in [ sessions : BOOLEAN, products : BOOLEAN ]
    /\ cart_snapshot = upstream
    /\ cart_gate = None
    /\ active_carts = {}
    /\ cart_pc = "waiting"
    /\ cart_last = None

\* A first row is written to one of the relations the check counts.
GateRelationFilled ==
    /\ \E r \in GateRelations \ nonEmpty : nonEmpty' = nonEmpty \cup {r}
    /\ UNCHANGED << is_running, pc, orch, cleanups, failed_events, existing_users,
                    active_users, categories, active_sessions, last >>
    /\ UNCHANGED genVars

\* Another generator stores a first open session, or a first active
\* product in stock.
UpstreamRowWritten ==
    /\ \E f \in { g \in DOMAIN upstream : ~upstream[g] } :
          upstream' = [ upstream EXCEPT ![f] = TRUE ]
    /\ UNCHANGED << vars, orderVars, amountVars, wishVars, cartVars, ticketVars,
                    categoryVars, consumerVars, sendVars, userVars, cart_gate >>

\* main.py:86-94: the polling loop finds the dependencies met and goes on
\* to generator.run(); nothing is read from the store again.
CartGateOpens ==
    /\ cart_pc = "waiting"
    /\ is_running
    /\ \E queryError \in BOOLEAN : check_dependencies("cart", queryError)
    /\ cart_pc' = "running"
    /\ cart_gate' = upstream
    /\ UNCHANGED << active_carts, cart_last, cart_snapshot, upstream >>
    /\ UNCHANGED << vars, orderVars, amountVars, wishVars, ticketVars,
                    categoryVars, consumerVars, sendVars, userVars >>

CartGateNext ==
    \/ GateRelationFilled
    \/ UpstreamRowWritten
    \/ CartGateOpens
    \/ CartTick

CartGateSpec == CartGateInit /\ [][CartGateNext]_allVars

\* C36: when the cart generator's dependency check has passed with an open
\* session and an active product in stock in the store, the snapshots it
\* creates carts from hold those rows, so that its creation branch can
\* create a cart.
C36_CartCreatedFromRowsAtGate ==
    (cart_pc = "running" /\ cart_gate # None
        /\ cart_gate.sessions /\ cart_gate.products)
    => /\ cart_snapshot = cart_gate
       /\ \E out \in CartCreateOutcomes : out.type = "cart_create"

\* The check passed with both kinds of row in the store, the snapshots
\* were read before either was written, and a tick of the creation branch
\* returned without an event.
C36_GateOpenSnapshotsEmpty ==
    /\ cart_pc = "running"
    /\ cart_gate = [ sessions |-> TRUE, products |-> TRUE ]
    /\ cart_snapshot = NoRows
    /\ cart_last # None
    /\ cart_last.type = "skip"
    /\ carts = << >>

-----------------------------------------------------------------------------
(* UserGenerator (user_generator.py) on a store that was empty when it was *)
(* constructed, and the addresses OrderGenerator.generate_order asks for   *)

MaxUsers == 3

\* config.py:42.
address_types == {"shipping", "billing"}

\* The rows of one send_event call are in the store unless the call raised
\* before or in its insert_record (event_generator.py:161-167).
Stored(cause) == send_event_attempts(cause).outcome # "unstored"

\* generate_new_user_event (lines 90-101) and the three send_event calls of
\* send_events (138-141): a users row, and one user_addresses row of the
\* drawn type with is_default True (line 78), each stored unless its call
\* failed; the address of a user whose row was not stored is not followed.
\* The model follows the MaxUsers users created last.
NewUserOutcomes(defaults) ==
    { [ event_type   |-> "new_user",
        address_type |-> t[1],
        user_stored  |-> Stored(t[2]),
        defaults     |->
            IF ~Stored(t[2]) THEN defaults
            ELSE LET kept == IF Len(defaults) < MaxUsers THEN defaults
                             ELSE Tail(defaults)
                 IN  Append(kept, IF Stored(t[3]) THEN {t[1]} ELSE {}) ] :
      t \in address_types \X SendCauses \X SendCauses }

\* generate_update_event (lines 103-134): the user is drawn from
\* existing_users, which holds what load_existing_users (17-21) read in the
\* constructor and is assigned nowhere else, so that an address_add or
\* address_update row never carries the id of a user created later.
UpdateUserOutcomes(defaults) ==
    { [ event_type   |-> t[1],
        address_type |-> IF t[1] \in {"address_update", "address_add"}
                         THEN t[2] ELSE "none",
        user_stored  |-> FALSE,
        defaults     |-> defaults ] :
      t \in {"user_update", "demographics_update", "address_update", "address_add"}
              \X address_types }

\* generate_event (lines 83-88): a new user when existing_users is empty,
\* and otherwise one or the other by chance.
UserEventOutcomes(defaults) ==
    NewUserOutcomes(defaults)
      \cup (IF existing_users THEN UpdateUserOutcomes(defaults) ELSE {})

\* get_user_addresses (order_generator.py:39-44) on the default addresses
\* of load_active_data (32-37): whether a billing and a shipping address
\* of the user are found.
get_user_addresses(defaults, user_id) ==
    [ billing  |-> "billing" \in defaults[user_id],
      shipping |-> "shipping" \in defaults[user_id] ]

\* UserGenerator.__init__ (lines 12-15) on an empty store: existing_users
\* is empty.
UserInit ==
    /\ OrchIdle /\ OrderIdle /\ AmountIdle /\ WishIdle
    /\ CartIdle /\ TicketIdle /\ tickets = << >> /\ ticket_messages = << >>
    /\ CategoryIdle /\ ConsumerIdle /\ SendIdle /\ GateIdle
    /\ user_defaults = << >>
    /\ user_last = None

\* Lines 155-156 of UserGenerator.run: generate_event and send_events.
UserTick ==
    /\ \E out \in UserEventOutcomes(user_defaults) :
          /\ user_defaults' = out.defaults
          /\ user_last' = [ event_type   |-> out.event_type,
                            address_type |-> out.address_type,
                            user_stored  |-> out.user_stored ]
    /\ UNCHANGED << vars, orderVars, amountVars, wishVars, cartVars, ticketVars,
                    categoryVars, consumerVars, sendVars, gateVars >>

UserNext == UserTick

\* The user generator's iterations; its loop does not end (the module
\* imports time), so an iteration that is possible is eventually taken.
UserSpec == UserInit /\ [][UserNext]_allVars /\ WF_allVars(UserTick)

\* Some user created during the run has a default billing and a default
\* shipping address, which generate_order (order_generator.py:81-84) needs
\* to make an order from a cart of that user.
OrderPossible ==
    \E u \in DOMAIN user_defaults :
       LET found == get_user_addresses(user_defaults, u)
       IN  found.billing /\ found.shipping

\* C37: from an empty store, the run comes to a state in which a user
\* created during the run holds both a default billing and a default
\* shipping address, so that an order can be created for a converted cart
\* of that user.
C37_OrderBecomesPossible == <>OrderPossible

\* Users with a default billing address and users with a default shipping
\* address have been created, none has both, and existing_users is still
\* empty.
C37_OneDefaultAddressEach ==
    /\ Len(user_defaults) = MaxUsers
    /\ \E u \in DOMAIN user_defaults : user_defaults[u] = {"billing"}
    /\ \E u \in DOMAIN user_defaults : user_defaults[u] = {"shipping"}
    /\ ~OrderPossible
    /\ ~existing_users
    /\ user_last # None /\ user_last.event_type = "new_user"

====
